---- MODULE Spec2Model ----
(***************************************************************************)
(* Agent memory core: the Session event log (session.ts), the Working      *)
(* Context builder (events.ts) and the Processor Pipeline (processors.ts). *)
(*                                                                         *)
(* JavaScript values are modelled as follows.                              *)
(*  - An object is a record over its own keys; an optional key that is not *)
(*    set is not in the record's DOMAIN.                                   *)
(*  - The compaction configuration, the one object callers overwrite key   *)
(*    by key, holds JavaScript values: Val(v), or Undefined for a key      *)
(*    explicitly set to undefined.                                         *)
(*  - Numbers are finite; averageResponseTimeMs is an exact fraction       *)
(*    [num, den] in lowest terms (floating-point rounding is not modelled).*)
(*  - Strings are TLA+ strings; only their length and their concatenation  *)
(*    are used.  Strings hold no character that JSON escapes.              *)
(***************************************************************************)
EXTENDS Integers, Sequences, FiniteSets, TLC

VARIABLES
    session,      \* the live Session object
    now,          \* the value Date.now() returns
    pipeline,     \* the ProcessorPipeline: its two lists of entries
    reqRun,       \* the executeRequestPipeline invocation
    respRun,      \* the executeResponsePipeline invocation
    wctx,         \* a WorkingContext held by the caller
    lastResult,   \* what the most recent call returned to the caller
    responsesRun, \* how many model responses have come back so far
    samples,      \* the responseTimeMs of the responses that carried one
    restored      \* the Session a caller holds from Session.deserialize

vars ==
    <<session, now, pipeline, reqRun, respRun, wctx, lastResult, responsesRun,
      samples, restored>>

\* ------------------------------------------------------------------------
\* Bounds of the model
\* ------------------------------------------------------------------------
MaxEvents == 2
MaxClock == 1
MaxResponses == 1
MaxLogLen == 5
MaxInstructions == 2
MaxContents == 3

\* ------------------------------------------------------------------------
\* Generic helpers
\* ------------------------------------------------------------------------
Has(o, k) == k \in DOMAIN o

\* An optional object argument is <<>> when it is not given.
IsGiven(o) == DOMAIN o # {}

\* JavaScript values of the fields callers may set to anything of the
\* declared type, `undefined` included.
Undefined == [undefined |-> TRUE]
Val(v) == [value |-> v]

\* ToBoolean(x) for x a boolean or undefined
Truthy(x) == x # Undefined /\ x.value

\* n >= x for a number n and x a number or undefined (undefined converts to
\* NaN, and every comparison with NaN is false)
GreaterOrEqual(n, x) == x # Undefined /\ n >= x.value

\* Object.assign(target, source): own keys of source overwrite target's.
ObjectAssign(target, source) ==
    [k \in DOMAIN target \cup DOMAIN source |->
        IF k \in DOMAIN source THEN source[k] ELSE target[k]]

\* Array.prototype.slice(-n): for n = 0, slice(-0) is slice(0), the whole
\* array; for n > 0 the last min(n, length) elements.
SliceLast(s, n) ==
    IF n = 0 \/ n >= Len(s) THEN s
    ELSE SubSeq(s, Len(s) - n + 1, Len(s))

\* n / 4 rounded down
FloorDiv4(n) == n \div 4

\* Math.ceil(n / 4) for n >= 0
CeilDiv4(n) == (n + 3) \div 4

RECURSIVE Gcd(_, _)
Gcd(a, b) == IF b = 0 THEN a ELSE Gcd(b, a % b)

\* A non-negative fraction in lowest terms.
Frac(n, d) == LET g == Gcd(n, d) IN [num |-> n \div g, den |-> d \div g]


\* ------------------------------------------------------------------------
\* Events (events.ts)
\* ------------------------------------------------------------------------
USER_MESSAGE == "user_message"
AGENT_MESSAGE == "agent_message"
TOOL_CALL == "tool_call"
TOOL_RESULT == "tool_result"
ERROR == "error"
CONTROL_SIGNAL == "control_signal"
COMPACTION == "compaction"
AGENT_TRANSFER == "agent_transfer"
SYSTEM_INSTRUCTION == "system_instruction"

EventAction ==
    {USER_MESSAGE, AGENT_MESSAGE, TOOL_CALL, TOOL_RESULT, ERROR,
     CONTROL_SIGNAL, COMPACTION, AGENT_TRANSFER, SYSTEM_INSTRUCTION}

BaseEvent(id, action, ts) == [id |-> id, action |-> action, timestamp |-> ts]

UserMessageEvent(id, ts, content) ==
    BaseEvent(id, USER_MESSAGE, ts) @@ [content |-> content]

\* tokensUsed is optional: opt is <<>> or [tokensUsed |-> n]
AgentMessageEvent(id, ts, content, opt) ==
    BaseEvent(id, AGENT_MESSAGE, ts)
        @@ [content |-> content, agentId |-> "agent"] @@ opt

ToolCallEvent(id, ts, toolName, arguments, toolCallId) ==
    BaseEvent(id, TOOL_CALL, ts)
        @@ [toolName |-> toolName, arguments |-> arguments,
            toolCallId |-> toolCallId]

ToolResultEvent(id, ts, toolName, toolCallId, result, isSuccess) ==
    BaseEvent(id, TOOL_RESULT, ts)
        @@ [toolName |-> toolName, toolCallId |-> toolCallId,
            result |-> result, isSuccess |-> isSuccess]

ErrorEvent(id, ts) ==
    BaseEvent(id, ERROR, ts)
        @@ [errorType |-> "E", errorMessage |-> "boom", recoverable |-> TRUE]

ControlSignalEvent(id, ts) ==
    BaseEvent(id, CONTROL_SIGNAL, ts) @@ [signalType |-> "pause"]

CompactionEvent(id, ts, summary, compactedEventIds) ==
    BaseEvent(id, COMPACTION, ts)
        @@ [summary |-> summary, compactedEventIds |-> compactedEventIds,
            compactionStrategy |-> "sliding_window"]

AgentTransferEvent(id, ts) ==
    BaseEvent(id, AGENT_TRANSFER, ts)
        @@ [fromAgent |-> "a", toAgent |-> "b", transferReason |-> "r"]

SystemInstructionEvent(id, ts, instruction, isStatic) ==
    BaseEvent(id, SYSTEM_INSTRUCTION, ts)
        @@ [instruction |-> instruction, isStatic |-> isStatic]

\* ------------------------------------------------------------------------
\* Session (session.ts)
\* ------------------------------------------------------------------------
DefaultTriggerThreshold == 50
DefaultWindowSize == 10
DefaultOverlapSize == 2

\* Math.random().toString(36).substr(2, 9)
RandomSuffixes == {"k3x9q0z1a", "p7m2w8c4d"}

\* new Session(agentId) at time t, the random suffix being r
NewSession(agentId, t, r) ==
    [metadata |->
        [sessionId |-> <<"session", t, r>>, createdAt |-> t, updatedAt |-> t,
         agentId |-> agentId],
     events |-> <<>>,
     statistics |->
        [totalEvents |-> 0, totalUserMessages |-> 0, totalAgentMessages |-> 0,
         totalToolCalls |-> 0, totalErrors |-> 0, totalCompactions |-> 0,
         averageResponseTimeMs |-> Frac(0, 1), totalTokensUsed |-> 0],
     compactionConfig |->
        [enabled |-> Val(TRUE),
         triggerThreshold |-> Val(DefaultTriggerThreshold),
         windowSize |-> Val(DefaultWindowSize),
         overlapSize |-> Val(DefaultOverlapSize),
         strategy |-> Val("sliding_window")]]

\* CounterOf with the tool-result case falling into the tool-call counter
CounterOfWithToolResults(action) ==
    CASE action = USER_MESSAGE -> "totalUserMessages"
      [] action = AGENT_MESSAGE -> "totalAgentMessages"
      [] action \in {TOOL_CALL, TOOL_RESULT} -> "totalToolCalls"
      [] action = ERROR -> "totalErrors"
      [] action = COMPACTION -> "totalCompactions"
      [] OTHER -> ""

\* The counter bucket addEvent's switch increments, "" for the actions it
\* has no case for.
CounterOf(action) ==
    CASE action = USER_MESSAGE -> "totalUserMessages"
      [] action = AGENT_MESSAGE -> "totalAgentMessages"
      [] action = TOOL_CALL -> "totalToolCalls"
      [] action = ERROR -> "totalErrors"
      [] action = COMPACTION -> "totalCompactions"
      [] OTHER -> ""

\* a token count taken from whatever event carries one
TokensAddedByAnyEvent(event) ==
    IF Has(event, "tokensUsed") /\ event.tokensUsed # 0
    THEN event.tokensUsed ELSE 0

\* if (event.tokensUsed) totalTokensUsed += event.tokensUsed
TokensAdded(event) ==
    IF event.action = AGENT_MESSAGE /\ Has(event, "tokensUsed")
            /\ event.tokensUsed # 0
    THEN event.tokensUsed ELSE 0

\* addEvent that, for a compaction event, drops the events it references
SessionAddEventCompacting(s, event, t) ==
    LET bucket == CounterOf(event.action)
        st0 == [s.statistics EXCEPT !.totalEvents = @ + 1]
        st1 == IF bucket = "" THEN st0
               ELSE [st0 EXCEPT ![bucket] = @ + 1]
        st2 == [st1 EXCEPT !.totalTokensUsed = @ + TokensAdded(event)]
        Referenced(e) ==
            /\ event.action = COMPACTION
            /\ \E k \in DOMAIN event.compactedEventIds :
                    event.compactedEventIds[k] = e.id
        Kept(e) == ~Referenced(e)
    IN [s EXCEPT !.events = Append(SelectSeq(@, Kept), event),
                 !.metadata.updatedAt = t,
                 !.statistics = st2]

\* addEvent whose tool_call case lacks its break and runs into the error
\* case
SessionAddEventFallingThrough(s, event, t) ==
    LET bucket == CounterOf(event.action)
        st0 == [s.statistics EXCEPT !.totalEvents = @ + 1]
        st1 == IF bucket = "" THEN st0
               ELSE IF event.action = TOOL_CALL
               THEN [st0 EXCEPT !.totalToolCalls = @ + 1,
                                !.totalErrors = @ + 1]
               ELSE [st0 EXCEPT ![bucket] = @ + 1]
        st2 == [st1 EXCEPT !.totalTokensUsed = @ + TokensAdded(event)]
    IN [s EXCEPT !.events = Append(@, event),
                 !.metadata.updatedAt = t,
                 !.statistics = st2]

\* Session.addEvent(event) at time t
SessionAddEvent(s, event, t) ==
    LET bucket == CounterOf(event.action)
        st0 == [s.statistics EXCEPT !.totalEvents = @ + 1]
        st1 == IF bucket = "" THEN st0
               ELSE [st0 EXCEPT ![bucket] = @ + 1]
        st2 == [st1 EXCEPT !.totalTokensUsed = @ + TokensAdded(event)]
    IN [s EXCEPT !.events = Append(@, event),
                 !.metadata.updatedAt = t,
                 !.statistics = st2]

\* needsCompaction counting only the events after the last compaction event
RECURSIVE EventsSinceCompaction(_)
EventsSinceCompaction(events) ==
    IF events = <<>> \/ events[Len(events)].action = "compaction" THEN 0
    ELSE 1 + EventsSinceCompaction(SubSeq(events, 1, Len(events) - 1))

SessionNeedsCompactionSinceLast(s) ==
    LET cfg == s.compactionConfig
    IN IF ~Truthy(cfg.enabled) THEN FALSE
       ELSE GreaterOrEqual(EventsSinceCompaction(s.events),
                           cfg.triggerThreshold)

\* needsCompaction comparing the length of the whole log with the threshold
SessionNeedsCompactionCountingAll(s) ==
    LET cfg == s.compactionConfig
    IN IF ~Truthy(cfg.enabled) THEN FALSE
       ELSE GreaterOrEqual(Len(s.events), cfg.triggerThreshold)

\* Session.needsCompaction()
SessionNeedsCompaction(s) ==
    LET cfg == s.compactionConfig
        NotCompaction(e) == e.action # COMPACTION
        uncompactedEvents == SelectSeq(s.events, NotCompaction)
    IN IF ~Truthy(cfg.enabled) THEN FALSE
       ELSE GreaterOrEqual(Len(uncompactedEvents), cfg.triggerThreshold)

\* Session.getEventsByTimeRange(startTime, endTime)
SessionGetEventsByTimeRange(s, startTime, endTime) ==
    LET InRange(e) == e.timestamp >= startTime /\ e.timestamp <= endTime
    IN SelectSeq(s.events, InRange)

\* Session.getEventsByAction(action)
SessionGetEventsByAction(s, action) ==
    LET IsAction(e) == e.action = action
    IN SelectSeq(s.events, IsAction)

\* Session.getLastNEvents(n)
SessionGetLastNEvents(s, n) == SliceLast(s.events, n)

\* getConversationTurns without the push of the last turn after the loop
RECURSIVE TurnsLoopWithoutLastPush(_, _, _)
TurnsLoopWithoutLastPush(events, turns, currentTurn) ==
    IF events = <<>> THEN turns
    ELSE LET event == Head(events)
             rest == Tail(events)
         IN IF event.action = USER_MESSAGE
            THEN TurnsLoopWithoutLastPush(rest, turns \o currentTurn,
                           <<[user |-> event, tools |-> <<>>]>>)
            ELSE IF currentTurn # <<>>
            THEN IF event.action = AGENT_MESSAGE
                 THEN TurnsLoopWithoutLastPush(rest, turns,
                        <<ObjectAssign(currentTurn[1], [agent |-> event])>>)
                 ELSE IF event.action \in {TOOL_CALL, TOOL_RESULT}
                 THEN TurnsLoopWithoutLastPush(rest, turns,
                        <<[currentTurn[1] EXCEPT !.tools = Append(@, event)]>>)
                 ELSE TurnsLoopWithoutLastPush(rest, turns, currentTurn)
            ELSE TurnsLoopWithoutLastPush(rest, turns, currentTurn)

\* Session.getConversationTurns(): the loop, event by event.  currentTurn
\* is <<>> for null, otherwise a one-element sequence holding the turn.
RECURSIVE TurnsLoop(_, _, _)
TurnsLoop(events, turns, currentTurn) ==
    IF events = <<>> THEN turns \o currentTurn
    ELSE LET event == Head(events)
             rest == Tail(events)
         IN IF event.action = USER_MESSAGE
            THEN TurnsLoop(rest, turns \o currentTurn,
                           <<[user |-> event, tools |-> <<>>]>>)
            ELSE IF currentTurn # <<>>
            THEN IF event.action = AGENT_MESSAGE
                 THEN TurnsLoop(rest, turns,
                        <<ObjectAssign(currentTurn[1], [agent |-> event])>>)
                 ELSE IF event.action \in {TOOL_CALL, TOOL_RESULT}
                 THEN TurnsLoop(rest, turns,
                        <<[currentTurn[1] EXCEPT !.tools = Append(@, event)]>>)
                 ELSE TurnsLoop(rest, turns, currentTurn)
            ELSE TurnsLoop(rest, turns, currentTurn)

SessionGetConversationTurns(s) == TurnsLoop(s.events, <<>>, <<>>)

\* Session.updateCompactionConfig(updates): Object.assign copies every own
\* key of updates, those holding undefined too.
SessionUpdateCompactionConfig(s, updates) ==
    [s EXCEPT !.compactionConfig = ObjectAssign(@, updates)]

\* JSON.parse(JSON.stringify(o)) for an object o of JavaScript values: a
\* key holding undefined is not written, so the parsed object lacks it.
JSONObject(o) == [k \in {k \in DOMAIN o : o[k] # Undefined} |-> o[k]]

\* Session.serialize() followed by JSON.parse: the parsed snapshot.  The
\* metadata, the statistics and the events hold finite numbers, strings,
\* booleans, arrays and objects without undefined values, which JSON
\* writes and reads back unchanged.
SessionSerialize(s) ==
    [metadata |-> s.metadata, events |-> s.events,
     statistics |-> s.statistics,
     compactionConfig |-> JSONObject(s.compactionConfig)]

\* Session.deserialize(data) at time t with random suffix r: a new Session,
\* then Object.assign of the three parsed objects over its defaults, then
\* the parsed events pushed.
SessionDeserialize(parsed, t, r) ==
    LET fresh == NewSession(parsed.metadata.agentId, t, r)
    IN [metadata |-> ObjectAssign(fresh.metadata, parsed.metadata),
        events |-> fresh.events \o parsed.events,
        statistics |-> ObjectAssign(fresh.statistics, parsed.statistics),
        compactionConfig |->
            ObjectAssign(fresh.compactionConfig, parsed.compactionConfig)]

\* A value JSON.parse can return, tagged with its JavaScript type; NotJSON
\* stands for a string JSON.parse refuses.
JNull == [json |-> "null"]
JNumber(n) == [json |-> "number", value |-> n]
JString(chars) == [json |-> "string", chars |-> chars]
JArray(items) == [json |-> "array", items |-> items]
JObject(members) == [json |-> "object", members |-> members]
NotJSON == [json |-> "invalid"]

\* v[k] for a property name k no string, number or array has
Property(v, k) ==
    IF v.json = "object" /\ k \in DOMAIN v.members THEN v.members[k]
    ELSE Undefined

\* the names of the indexed properties of a string or an array
IndexKeys == <<"0", "1", "2">>

Indexed(elements) ==
    [k \in {IndexKeys[i] : i \in DOMAIN elements} |->
        elements[CHOOSE i \in DOMAIN elements : IndexKeys[i] = k]]

\* the own enumerable properties Object.assign copies from a source:
\* none for undefined, null and numbers, the indexed characters of a
\* string, the indexed items of an array
OwnProperties(v) ==
    IF v = Undefined THEN <<>>
    ELSE CASE v.json = "object" -> v.members
           [] v.json = "string" -> Indexed(v.chars)
           [] v.json = "array" -> Indexed(v.items)
           [] OTHER -> <<>>

\* whether ...v spreads: arrays and strings are iterable
IsIterable(v) == v # Undefined /\ v.json \in {"array", "string"}

Spread(v) == IF v.json = "array" THEN v.items ELSE v.chars

\* JSON.parse(session.serialize()) as a tagged value
SessionSnapshot(s) ==
    LET parsed == SessionSerialize(s)
    IN JObject([metadata |-> JObject(parsed.metadata),
                events |-> JArray(parsed.events),
                statistics |-> JObject(parsed.statistics),
                compactionConfig |-> JObject(parsed.compactionConfig)])

\* Session.deserialize on any input, statement by statement: JSON.parse
\* throws a SyntaxError on a string that is not JSON; parsed.metadata
\* throws a TypeError on null and parsed.metadata.agentId on a metadata
\* that is undefined or null; the three Object.assign calls take any
\* source; the spread of parsed.events throws a TypeError on a value that
\* is not iterable.
SessionDeserializeAny(data, t, r) ==
    IF data = NotJSON THEN [threw |-> TRUE, error |-> "SyntaxError"]
    ELSE IF data = JNull THEN [threw |-> TRUE, error |-> "TypeError"]
    ELSE LET metadata == Property(data, "metadata")
         IN IF metadata \in {Undefined, JNull}
            THEN [threw |-> TRUE, error |-> "TypeError"]
            ELSE LET fresh == NewSession(Property(metadata, "agentId"), t, r)
                     events == Property(data, "events")
                 IN IF ~IsIterable(events)
                    THEN [threw |-> TRUE, error |-> "TypeError"]
                    ELSE [threw |-> FALSE,
                          value |->
                            [metadata |->
                                ObjectAssign(fresh.metadata,
                                             OwnProperties(metadata)),
                             events |-> fresh.events \o Spread(events),
                             statistics |->
                                ObjectAssign(fresh.statistics,
                                    OwnProperties(
                                        Property(data, "statistics"))),
                             compactionConfig |->
                                ObjectAssign(fresh.compactionConfig,
                                    OwnProperties(
                                        Property(data,
                                                 "compactionConfig")))]]

\* ------------------------------------------------------------------------
\* Working Context (events.ts)
\* ------------------------------------------------------------------------

\* Array.prototype.join(sep) on strings
RECURSIVE Join(_, _)
Join(strs, sep) ==
    IF strs = <<>> THEN ""
    ELSE IF Len(strs) = 1 THEN strs[1]
    ELSE strs[1] \o sep \o Join(Tail(strs), sep)

\* JSON.stringify of a string without characters to escape
JSONString(str) == "\"" \o str \o "\""

RECURSIVE JSONStrings(_)
JSONStrings(strs) ==
    IF strs = <<>> THEN <<>>
    ELSE <<JSONString(Head(strs))>> \o JSONStrings(Tail(strs))

\* JSON.stringify(agentIdentity): keys in declaration order
JSONAgentIdentity(identity) ==
    "{\"name\":" \o JSONString(identity.name)
        \o ",\"role\":" \o JSONString(identity.role)
        \o ",\"capabilities\":["
        \o Join(JSONStrings(identity.capabilities), ",") \o "]}"

JSONArtifactReference(a) ==
    "{\"id\":" \o JSONString(a.id) \o ",\"name\":" \o JSONString(a.name)
        \o ",\"type\":" \o JSONString(a.type)
        \o ",\"summary\":" \o JSONString(a.summary) \o "}"

RECURSIVE JSONArtifactList(_)
JSONArtifactList(refs) ==
    IF refs = <<>> THEN <<>>
    ELSE <<JSONArtifactReference(Head(refs))>> \o JSONArtifactList(Tail(refs))

\* JSON.stringify(artifactReferences)
JSONArtifactReferences(refs) == "[" \o Join(JSONArtifactList(refs), ",") \o "]"

\* new WorkingContext(sessionId) at time t
NewWorkingContext(sessionId, t) ==
    [systemInstructions |-> <<>>,
     contents |-> <<>>,
     memoryResults |-> <<>>,
     artifactReferences |-> <<>>,
     metadata |->
        [sessionId |-> sessionId, totalEvents |-> 0, compactedEvents |-> 0,
         windowSize |-> 0, createdAt |-> t]]

AddSystemInstruction(c, instruction) ==
    [c EXCEPT !.systemInstructions = Append(@, instruction)]

SetAgentIdentity(c, identity) == ObjectAssign(c, [agentIdentity |-> identity])

AddContent(c, content) == [c EXCEPT !.contents = Append(@, content)]

AddContents(c, contents) == [c EXCEPT !.contents = @ \o contents]

AddMemoryResults(c, results) == [c EXCEPT !.memoryResults = @ \o results]

AddArtifactReference(c, reference) ==
    [c EXCEPT !.artifactReferences = Append(@, reference)]

\* the characters of all contents: the loop of estimateTokenCount
RECURSIVE ContentChars(_)
ContentChars(contents) ==
    IF contents = <<>> THEN 0
    ELSE Len(Head(contents).content) + ContentChars(Tail(contents))

SystemChars(c) == Len(Join(c.systemInstructions, "\n"))

IdentityChars(c) ==
    IF Has(c, "agentIdentity") THEN Len(JSONAgentIdentity(c.agentIdentity))
    ELSE 0

\* WorkingContext.estimateTokenCount()
EstimateTokenCount(c) ==
    LET totalChars ==
            SystemChars(c)
            + IdentityChars(c)
            + ContentChars(c.contents)
            + (IF Len(c.memoryResults) > 0
               THEN Len(Join(c.memoryResults, "\n")) ELSE 0)
            + (IF Len(c.artifactReferences) > 0
               THEN Len(JSONArtifactReferences(c.artifactReferences)) ELSE 0)
    IN CeilDiv4(totalChars)

\* WorkingContext.fitsWithinLimit(config)
FitsWithinLimit(c, config) == EstimateTokenCount(c) <= config.availableForHistory

\* a backward loop that stops before the oldest content (i > 0)
RECURSIVE KeepFromSkippingOldest(_, _, _, _)
KeepFromSkippingOldest(contents, i, used, budget4) ==
    IF i < 2 THEN 2
    ELSE LET contentTokens == (Len(contents[i].content) + 3) \div 4
         IN IF 4 * (used + contentTokens) <= budget4
            THEN KeepFromSkippingOldest(contents, i - 1, used + contentTokens,
                                        budget4)
            ELSE i + 1

\* The index from which truncateToFit's backward loop keeps the contents:
\* i is the index under test, used the tokens of the contents kept so far,
\* budget4 four times availableForContents (systemTokens is a quarter of a
\* character count, not rounded).
RECURSIVE KeepFrom(_, _, _, _)
KeepFrom(contents, i, used, budget4) ==
    IF i < 1 THEN 1
    ELSE LET contentTokens == CeilDiv4(Len(contents[i].content))
         IN IF 4 * (used + contentTokens) <= budget4
            THEN KeepFrom(contents, i - 1, used + contentTokens, budget4)
            ELSE i + 1

\* truncateToFit without the early return for a context that fits
TruncateToFitAlwaysCutting(c, config) ==
    LET budget4 == 4 * config.availableForHistory
                      - (SystemChars(c) + IdentityChars(c))
        first == KeepFrom(c.contents, Len(c.contents), 0, budget4)
        contentsToKeep == SubSeq(c.contents, first, Len(c.contents))
    IN [c EXCEPT !.contents = contentsToKeep,
                 !.metadata.windowSize = Len(contentsToKeep)]

\* truncateToFit whose systemTokens leaves the agent identity out
TruncateToFitIgnoringIdentity(c, config) ==
    IF EstimateTokenCount(c) <= config.availableForHistory THEN c
    ELSE LET budget4 == 4 * config.availableForHistory - SystemChars(c)
             first == KeepFrom(c.contents, Len(c.contents), 0, budget4)
             contentsToKeep == SubSeq(c.contents, first, Len(c.contents))
         IN [c EXCEPT !.contents = contentsToKeep,
                      !.metadata.windowSize = Len(contentsToKeep)]

\* WorkingContext.truncateToFit(config)
TruncateToFit(c, config) ==
    IF EstimateTokenCount(c) <= config.availableForHistory THEN c
    ELSE LET systemChars == SystemChars(c) + IdentityChars(c)
             budget4 == 4 * config.availableForHistory - systemChars
             first == KeepFrom(c.contents, Len(c.contents), 0, budget4)
             contentsToKeep == SubSeq(c.contents, first, Len(c.contents))
         IN [c EXCEPT !.contents = contentsToKeep,
                      !.metadata.windowSize = Len(contentsToKeep)]


\* a string property that is set and not empty: `content.name && ...`
TruthyString(o, k) == k \in DOMAIN o /\ o[k] # ""

MODELS_USING_ASSISTANT_ROLE == {"@cf/mistralai/mistral-small-3.1-24b-instruct"}

RECURSIVE ArtifactLines(_)
ArtifactLines(references) ==
    IF references = <<>> THEN <<>>
    ELSE LET a == Head(references)
         IN <<"- " \o a.name \o " (" \o a.type \o "): " \o a.summary>>
                \o ArtifactLines(Tail(references))

\* systemContent of _toWorkersAIFormat
SystemContent(c) ==
    Join(c.systemInstructions, "\n\n")
    \o (IF Has(c, "agentIdentity")
        THEN "\n\nAgent Identity:\nName: " \o c.agentIdentity.name
                \o "\nRole: " \o c.agentIdentity.role
                \o "\nCapabilities: "
                \o Join(c.agentIdentity.capabilities, ", ")
        ELSE "")
    \o (IF Len(c.memoryResults) > 0
        THEN "\n\nRelevant Memory:\n" \o Join(c.memoryResults, "\n\n")
        ELSE "")
    \o (IF Len(c.artifactReferences) > 0
        THEN "\n\nAvailable Artifacts:\n"
                \o Join(ArtifactLines(c.artifactReferences), "\n")
        ELSE "")

\* the input item of the responses format for one content; call_id is
\* written whether or not the content has a tool_call_id
InputOfContent(content) ==
    IF content.role = "tool"
    THEN [type |-> "function_call_output",
          call_id |-> IF Has(content, "tool_call_id")
                      THEN Val(content.tool_call_id) ELSE Undefined,
          output |-> content.content]
    ELSE [role |-> content.role, content |-> content.content]
            @@ (IF TruthyString(content, "name")
                THEN [name |-> content.name] ELSE <<>>)

\* the message of the chat format for one content: a key is copied from
\* the content only when its value is truthy
MessageOfContent(content, usesAssistantRole) ==
    IF content.role = "tool"
    THEN IF usesAssistantRole
         THEN [role |-> "assistant", content |-> content.content]
         ELSE [role |-> "tool", content |-> content.content]
                @@ (IF TruthyString(content, "tool_call_id")
                    THEN [tool_call_id |-> content.tool_call_id] ELSE <<>>)
    ELSE [role |-> content.role, content |-> content.content]
            @@ (IF TruthyString(content, "name")
                THEN [name |-> content.name] ELSE <<>>)
            @@ (IF TruthyString(content, "tool_call_id")
                THEN [tool_call_id |-> content.tool_call_id] ELSE <<>>)

\* _toWorkersAIFormat(format, model); model is <<>> when not given and
\* [model |-> name] when given
ToWorkersAIFormat(c, format, model) ==
    LET usesAssistantRole ==
            TruthyString(model, "model")
                /\ model.model \in MODELS_USING_ASSISTANT_ROLE
        systemContent == SystemContent(c)
    IN IF format = "responses"
       THEN [instructions |-> systemContent,
             input |-> [i \in DOMAIN c.contents |->
                            InputOfContent(c.contents[i])],
             reasoning |-> [effort |-> "medium", summary |-> "concise"]]
       ELSE [messages |->
                <<[role |-> "system", content |-> systemContent]>>
                \o [i \in DOMAIN c.contents |->
                        MessageOfContent(c.contents[i], usesAssistantRole)]]

\* toModelFormat answering an unknown model type with the chat format
ToModelFormatFallingBack(c, args) ==
    LET options == IF Has(args, "options") THEN args.options ELSE <<>>
    IN [threw |-> FALSE,
        value |-> ToWorkersAIFormat(c,
                    IF TruthyString(options, "format") THEN options.format
                    ELSE "chat_completions",
                    [k \in {"model"} \cap DOMAIN options |-> options[k]])]

\* toModelFormat(modelType, options): args holds the arguments given; the
\* outcome is the value returned or the Error thrown.
ToModelFormat(c, args) ==
    LET modelType == IF Has(args, "modelType") THEN args.modelType
                     ELSE "workers-ai"
        options == IF Has(args, "options") THEN args.options ELSE <<>>
    IN IF modelType = "workers-ai"
       THEN [threw |-> FALSE,
             value |-> ToWorkersAIFormat(c,
                        IF TruthyString(options, "format") THEN options.format
                        ELSE "chat_completions",
                        [k \in {"model"} \cap DOMAIN options |-> options[k]])]
       ELSE [threw |-> TRUE,
             error |-> "Unsupported model type: " \o modelType]

\* ------------------------------------------------------------------------
\* Built-in request processors (processors.ts)
\* ------------------------------------------------------------------------

\* A plain object used as tool arguments or as a tool result is the
\* sequence of its members <<key, string value>> in insertion order.
RECURSIVE JSONMembers(_)
JSONMembers(members) ==
    IF members = <<>> THEN <<>>
    ELSE <<JSONString(Head(members)[1]) \o ":" \o JSONString(Head(members)[2])>>
            \o JSONMembers(Tail(members))

\* JSON.stringify of such an object
JSONPlainObject(members) == "{" \o Join(JSONMembers(members), ",") \o "}"

\* A tool result is [string |-> s] or [object |-> members]:
\* typeof result === "string" ? result : JSON.stringify(result)
ResultContent(result) ==
    IF Has(result, "string") THEN result.string
    ELSE JSONPlainObject(result.object)

\* the optional keys of `o` among `keys` that are set
Optional(o, keys) == [k \in keys \cap DOMAIN o |-> o[k]]

\* a switch that projects tool calls and tool results whatever
\* includeToolCalls says, and error events as system contents
ContentsOfEventProjectingAll(event, includeToolCalls) ==
    LET base == [eventId |-> event.id, timestamp |-> event.timestamp]
    IN CASE event.action = USER_MESSAGE ->
              <<[role |-> "user", content |-> event.content,
                 metadata |-> base]>>
         [] event.action = AGENT_MESSAGE ->
              <<[role |-> "assistant", content |-> event.content,
                 metadata |-> base]>>
         [] event.action = TOOL_CALL ->
              <<[role |-> "assistant", content |-> "Tool call",
                 metadata |-> base]>>
         [] event.action = TOOL_RESULT ->
              <<[role |-> "tool", content |-> "result",
                 name |-> event.toolName,
                 tool_call_id |-> event.toolCallId,
                 metadata |-> base]>>
         [] event.action = COMPACTION ->
              <<[role |-> "system",
                 content |-> "[Conversation Summary]: " \o event.summary,
                 metadata |-> base]>>
         [] event.action = ERROR ->
              <<[role |-> "system", content |-> event.errorMessage,
                 metadata |-> base]>>
         [] OTHER -> <<>>

\* The switch of contentsRequestProcessor: the contents one event adds.
ContentsOfEvent(event, includeToolCalls) ==
    LET base == [eventId |-> event.id, timestamp |-> event.timestamp]
    IN CASE event.action = USER_MESSAGE ->
              <<[role |-> "user", content |-> event.content,
                 metadata |-> base]>>
         [] event.action = AGENT_MESSAGE ->
              <<[role |-> "assistant", content |-> event.content,
                 metadata |->
                    base @@ Optional(event, {"modelUsed", "gatewayLogId"})]>>
         [] event.action = TOOL_CALL ->
              IF includeToolCalls
              THEN <<[role |-> "assistant",
                      content |-> "Tool call: " \o event.toolName
                            \o " with arguments: "
                            \o JSONPlainObject(event.arguments),
                      metadata |->
                         base @@ [toolCallId |-> event.toolCallId,
                                  toolName |-> event.toolName]]>>
              ELSE <<>>
         [] event.action = TOOL_RESULT ->
              IF includeToolCalls
              THEN <<[role |-> "tool",
                      content |-> ResultContent(event.result),
                      name |-> event.toolName,
                      tool_call_id |-> event.toolCallId,
                      metadata |-> base @@ [isSuccess |-> event.isSuccess]]>>
              ELSE <<>>
         [] event.action = COMPACTION ->
              <<[role |-> "system",
                 content |-> "[Conversation Summary]: " \o event.summary,
                 metadata |->
                    base @@ [compactedEventIds |-> event.compactedEventIds]]>>
         [] OTHER -> <<>>

\* a projection that puts each event's contents before the earlier ones
RECURSIVE ContentsOfEventsReversed(_, _)
ContentsOfEventsReversed(events, includeToolCalls) ==
    IF events = <<>> THEN <<>>
    ELSE ContentsOfEventsReversed(Tail(events), includeToolCalls)
            \o ContentsOfEvent(Head(events), includeToolCalls)

RECURSIVE ContentsOfEvents(_, _)
ContentsOfEvents(events, includeToolCalls) ==
    IF events = <<>> THEN <<>>
    ELSE ContentsOfEvent(Head(events), includeToolCalls)
            \o ContentsOfEvents(Tail(events), includeToolCalls)

\* basicRequestProcessor
BasicRequestProcessor(s, c) ==
    [c EXCEPT !.metadata.sessionId = s.metadata.sessionId,
              !.metadata.totalEvents = Len(s.events)]

RECURSIVE AddSystemInstructions(_, _)
AddSystemInstructions(c, instructions) ==
    IF instructions = <<>> THEN c
    ELSE AddSystemInstructions(AddSystemInstruction(c, Head(instructions)),
                               Tail(instructions))

RECURSIVE InstructionTexts(_)
InstructionTexts(events) ==
    IF events = <<>> THEN <<>>
    ELSE <<Head(events).instruction>> \o InstructionTexts(Tail(events))

\* an instructions processor that takes the events before the configured
\* instructions and does not look at isStatic
InstructionsRequestProcessorTakingAll(s, c, config) ==
    LET configured == IF Has(config, "instructions") THEN config.instructions
                      ELSE <<>>
        IsInstruction(e) == e.action = SYSTEM_INSTRUCTION
        instructions == SelectSeq(s.events, IsInstruction)
    IN AddSystemInstructions(
           AddSystemInstructions(c, InstructionTexts(instructions)),
           configured)

\* instructionsRequestProcessor; config is <<>> when not given
InstructionsRequestProcessor(s, c, config) ==
    LET configured == IF Has(config, "instructions") THEN config.instructions
                      ELSE <<>>
        IsStaticInstruction(e) ==
            e.action = SYSTEM_INSTRUCTION /\ e.isStatic
        staticInstructions == SelectSeq(s.events, IsStaticInstruction)
    IN AddSystemInstructions(AddSystemInstructions(c, configured),
                             InstructionTexts(staticInstructions))

\* identityRequestProcessor; config is the identity, <<>> when not given
IdentityRequestProcessor(s, c, config) ==
    IF IsGiven(config) THEN SetAgentIdentity(c, config) ELSE c

\* a contentsRequestProcessor that drops the filtered actions before it
\* takes the window
ContentsRequestProcessorFilteringFirst(events, c, config) ==
    LET includeToolCalls ==
            IF Has(config, "includeToolCalls") THEN config.includeToolCalls
            ELSE TRUE
        filterActions ==
            IF Has(config, "filterActions") THEN config.filterActions ELSE {}
        NotFiltered(e) == e.action \notin filterActions
        kept == SelectSeq(events, NotFiltered)
        eventsToProcess ==
            IF Has(config, "windowSize") /\ config.windowSize > 0
            THEN SliceLast(kept, config.windowSize) ELSE kept
        added == AddContents(c, ContentsOfEvents(eventsToProcess,
                                                 includeToolCalls))
    IN [added EXCEPT !.metadata.windowSize = Len(added.contents)]

\* contentsRequestProcessor over the event list `events` of the session it
\* is handed
ContentsRequestProcessor(events, c, config) ==
    LET includeToolCalls ==
            IF Has(config, "includeToolCalls") THEN config.includeToolCalls
            ELSE TRUE
        filterActions ==
            IF Has(config, "filterActions") THEN config.filterActions ELSE {}
        windowed ==
            IF Has(config, "windowSize") /\ config.windowSize > 0
            THEN SliceLast(events, config.windowSize) ELSE events
        NotFiltered(e) == e.action \notin filterActions
        eventsToProcess ==
            IF filterActions # {} THEN SelectSeq(windowed, NotFiltered)
            ELSE windowed
        added == AddContents(c, ContentsOfEvents(eventsToProcess,
                                                 includeToolCalls))
    IN [added EXCEPT !.metadata.windowSize = Len(added.contents)]

DefaultTurns == 3

\* slidingWindowRequestProcessor
SlidingWindowRequestProcessor(s, c, config) ==
    LET turns == IF Has(config, "turns") /\ config.turns # 0
                 THEN config.turns ELSE DefaultTurns
        IsUserMessage(e) == e.action = USER_MESSAGE
        userMessages == SelectSeq(s.events, IsUserMessage)
        recentUserMessages == SliceLast(userMessages, turns)
    IN IF Len(recentUserMessages) = 0 THEN c
       ELSE LET windowStartTime == recentUserMessages[1].timestamp
                InWindow(e) ==
                    e.timestamp >= windowStartTime \/ e.action = COMPACTION
                filteredEvents == SelectSeq(s.events, InWindow)
            IN ContentsRequestProcessor(filteredEvents, c,
                                        [includeToolCalls |-> TRUE])

\* the ids named by the latest compaction event of the log alone
RECURSIVE CompactedEventIdsOfLatest(_)
CompactedEventIdsOfLatest(events) ==
    IF events = <<>> THEN {}
    ELSE LET last == events[Len(events)]
         IN IF last.action = COMPACTION
            THEN {last.compactedEventIds[i] :
                    i \in DOMAIN last.compactedEventIds}
            ELSE CompactedEventIdsOfLatest(SubSeq(events, 1, Len(events) - 1))

\* the ids named by the compaction events of the log
RECURSIVE CompactedEventIds(_)
CompactedEventIds(events) ==
    IF events = <<>> THEN {}
    ELSE (IF Head(events).action = COMPACTION
          THEN {Head(events).compactedEventIds[i] :
                    i \in DOMAIN Head(events).compactedEventIds}
          ELSE {})
         \cup CompactedEventIds(Tail(events))

\* compactionFilterRequestProcessor
CompactionFilterRequestProcessor(s, c, config) ==
    LET keepSummaries ==
            IF Has(config, "keepCompactionSummaries")
            THEN config.keepCompactionSummaries ELSE TRUE
        compactedEventIds == CompactedEventIds(s.events)
        Kept(e) ==
            e.id \notin compactedEventIds
                \/ (keepSummaries /\ e.action = COMPACTION)
        filteredEvents == SelectSeq(s.events, Kept)
        marked == [c EXCEPT !.metadata.compactedEvents =
                                Cardinality(compactedEventIds)]
    IN ContentsRequestProcessor(filteredEvents, marked, <<>>)

\* contextCacheRequestProcessor
ContextCacheRequestProcessor(s, c, config) ==
    IF Has(config, "enableCaching") /\ config.enableCaching
    THEN [c EXCEPT !.metadata =
            ObjectAssign(@, [cacheEnabled |-> TRUE,
                             cacheablePrefix |-> Len(c.systemInstructions)])]
    ELSE c

\* tokenLimitRequestProcessor
TokenLimitRequestProcessor(s, c, config) ==
    IF IsGiven(config) THEN TruncateToFit(c, config) ELSE c

\* ------------------------------------------------------------------------
\* Built-in response processor (processors.ts)
\* ------------------------------------------------------------------------

\* a statistics processor that tests `resp.metadata` alone: a metadata
\* without responseTimeMs makes the average NaN, written 0/0
StatisticsResponseProcessorOnMetadata(s, response) ==
    IF Has(response, "metadata")
    THEN IF Has(response.metadata, "responseTimeMs")
         THEN LET currentAvg == s.statistics.averageResponseTimeMs
                  totalResponses == s.statistics.totalAgentMessages
              IN [s EXCEPT !.statistics.averageResponseTimeMs =
                    Frac(currentAvg.num * totalResponses
                            + response.metadata.responseTimeMs * currentAvg.den,
                         currentAvg.den * (totalResponses + 1))]
         ELSE [s EXCEPT !.statistics.averageResponseTimeMs =
                    [num |-> 0, den |-> 0]]
    ELSE s

\* a statistics processor that writes the sample over the average
StatisticsResponseProcessorOverwriting(s, response) ==
    IF Has(response, "metadata") /\ Has(response.metadata, "responseTimeMs")
            /\ response.metadata.responseTimeMs # 0
    THEN [s EXCEPT !.statistics.averageResponseTimeMs =
                        Frac(response.metadata.responseTimeMs, 1)]
    ELSE s

\* statisticsResponseProcessor: response is an object that may hold
\* metadata, which may hold responseTimeMs (0 is falsy)
StatisticsResponseProcessor(s, response) ==
    IF Has(response, "metadata") /\ Has(response.metadata, "responseTimeMs")
            /\ response.metadata.responseTimeMs # 0
    THEN LET currentAvg == s.statistics.averageResponseTimeMs
             totalResponses == s.statistics.totalAgentMessages
             newAvg ==
                Frac(currentAvg.num * totalResponses
                        + response.metadata.responseTimeMs * currentAvg.den,
                     currentAvg.den * (totalResponses + 1))
         IN [s EXCEPT !.statistics.averageResponseTimeMs = newAvg]
    ELSE s


\* ------------------------------------------------------------------------
\* ProcessorPipeline (processors.ts)
\* ------------------------------------------------------------------------

\* A ProcessorEntry is [name, processor] with the optional keys config and
\* enabled; processor names the function.  Besides the built-in functions
\* there are two processors of the caller's own, both asynchronous:
\*   "memory-search"  a request processor that awaits a search and returns
\*                    a new context: the one it was given plus the results;
\*   "audit"          a response processor that awaits a write and returns
\*                    the session it was given.
AsyncProcessors == {"memory-search", "audit", "faulty-async"}

\* Two more processors of the caller's own, which fail: "faulty" throws
\* when called, "faulty-async" returns a promise that rejects.
ThrowingProcessors == {"faulty"}

RejectingProcessors == {"faulty-async"}

\* the Error a failing processor throws or rejects with
ProcessorError(entry) == [error |-> "Error", thrownBy |-> entry.name]

MemorySearchResults == <<"likes tea">>

\* new ProcessorPipeline()
NewPipeline == [requestProcessors |-> <<>>, responseProcessors |-> <<>>]

\* the entry addRequestProcessor / addResponseProcessor pushes; config is
\* <<>> when not given
Entry(name, processor, config) ==
    [name |-> name, processor |-> processor]
        @@ (IF IsGiven(config) THEN [config |-> config] ELSE <<>>)

AddRequestProcessor(p, name, processor, config) ==
    [p EXCEPT !.requestProcessors = Append(@, Entry(name, processor, config))]

AddResponseProcessor(p, name, processor, config) ==
    [p EXCEPT !.responseProcessors = Append(@, Entry(name, processor, config))]

\* Array.prototype.splice(start, 0, item): a negative start counts from the
\* end, and start is clamped to the array
Splice(array, start, item) ==
    LET len == Len(array)
        at == IF start < 0
              THEN (IF len + start < 0 THEN 0 ELSE len + start)
              ELSE (IF start > len THEN len ELSE start)
    IN SubSeq(array, 1, at) \o <<item>> \o SubSeq(array, at + 1, len)

\* an insertRequestProcessor that pushes the entry at the end
InsertRequestProcessorAtEnd(p, index, name, processor, config) ==
    [p EXCEPT !.requestProcessors = Append(@, Entry(name, processor, config))]

\* ProcessorPipeline.insertRequestProcessor(index, name, processor, config)
InsertRequestProcessor(p, index, name, processor, config) ==
    [p EXCEPT !.requestProcessors =
                  Splice(@, index, Entry(name, processor, config))]

\* ProcessorPipeline.removeRequestProcessor(name)
RemoveRequestProcessor(p, name) ==
    LET Other(entry) == entry.name # name
    IN [p EXCEPT !.requestProcessors = SelectSeq(@, Other)]

ConfigOf(entry) == IF Has(entry, "config") THEN entry.config ELSE <<>>

\* a loop that runs only the entries whose enabled flag is set to true
IsSkippedUnlessEnabled(entry) == ~(Has(entry, "enabled") /\ entry.enabled = TRUE)

\* if (enabled === false) continue
IsSkipped(entry) == Has(entry, "enabled") /\ entry.enabled = FALSE

\* result instanceof Promise: what an asynchronous processor returns
IsPromise(entry) == entry.processor \in AsyncProcessors

\* a loop that takes the result as it is, promise or not
AwaitsNever(entry) == FALSE

\* result instanceof Promise ? await result : result
Awaits(entry) == IsPromise(entry)

\* A WorkingContext, as opposed to a Promise handed on without awaiting.
IsWorkingContext(v) == Has(v, "metadata")

\* The value a synchronous request processor returns.
ApplyRequestProcessor(entry, s, c) ==
    LET config == ConfigOf(entry)
    IN CASE entry.processor = "basic" -> BasicRequestProcessor(s, c)
         [] entry.processor = "instructions" ->
              InstructionsRequestProcessor(s, c, config)
         [] entry.processor = "identity" ->
              IdentityRequestProcessor(s, c, config)
         [] entry.processor = "contents" ->
              ContentsRequestProcessor(s.events, c, config)
         [] entry.processor = "sliding-window" ->
              SlidingWindowRequestProcessor(s, c, config)
         [] entry.processor = "compaction-filter" ->
              CompactionFilterRequestProcessor(s, c, config)
         [] entry.processor = "context-cache" ->
              ContextCacheRequestProcessor(s, c, config)
         [] entry.processor = "token-limit" ->
              TokenLimitRequestProcessor(s, c, config)

\* processor(session, context, config) throws
Throws(entry) == entry.processor \in ThrowingProcessors

\* the promise a processor returned rejects
Rejects(entry) == entry.processor \in RejectingProcessors

\* The value an awaited result settles to: what the promise of an
\* asynchronous request processor resolves with, or the value itself when
\* it is no promise.
SettledContext(entry, input) ==
    IF IsPromise(entry) THEN AddMemoryResults(input, MemorySearchResults)
    ELSE input

\* The value the loop variable takes from a stage's result.
Threaded(result, context) == result

\* a loop that catches what a stage throws and goes on to the next stage
RECURSIVE RequestLoopSwallowing(_, _, _, _, _)
RequestLoopSwallowing(entries, i, s, context, trace) ==
    IF i > Len(entries)
    THEN [pc |-> "resolved", i |-> i, context |-> context, trace |-> trace]
    ELSE LET entry == entries[i]
             invoked == [index |-> i, name |-> entry.name, input |-> context]
         IN IF IsSkipped(entry)
            THEN RequestLoopSwallowing(entries, i + 1, s, context, trace)
            ELSE IF Throws(entry)
            THEN RequestLoopSwallowing(entries, i + 1, s, context,
                                       Append(trace, invoked))
            ELSE IF ~IsWorkingContext(context)
            THEN [pc |-> "rejected", i |-> i, context |-> context,
                  error |-> [error |-> "TypeError", thrownBy |-> entry.name],
                  trace |-> Append(trace, invoked)]
            ELSE IF IsPromise(entry)
            THEN IF Awaits(entry)
                 THEN [pc |-> "awaiting", i |-> i, context |-> context,
                       trace |-> Append(trace, invoked)]
                 ELSE RequestLoopSwallowing(entries, i + 1, s,
                        Threaded([promise |-> i], context),
                        Append(trace, invoked))
            ELSE LET result == ApplyRequestProcessor(entry, s, context)
                 IN RequestLoopSwallowing(entries, i + 1, s,
                        Threaded(result, context),
                        Append(trace, invoked @@ [output |-> result]))

\* a loop that awaits the result of every stage, promise or not
\* (context = await result): it suspends after each stage
RECURSIVE RequestLoopAwaitingEach(_, _, _, _, _)
RequestLoopAwaitingEach(entries, i, s, context, trace) ==
    IF i > Len(entries)
    THEN [pc |-> "resolved", i |-> i, context |-> context, trace |-> trace]
    ELSE LET entry == entries[i]
             invoked == [index |-> i, name |-> entry.name, input |-> context]
         IN IF IsSkipped(entry)
            THEN RequestLoopAwaitingEach(entries, i + 1, s, context, trace)
            ELSE IF Throws(entry)
            THEN [pc |-> "rejected", i |-> i, context |-> context,
                  error |-> ProcessorError(entry),
                  trace |-> Append(trace, invoked)]
            ELSE IF IsPromise(entry)
            THEN [pc |-> "awaiting", i |-> i, context |-> context,
                  trace |-> Append(trace, invoked)]
            ELSE [pc |-> "awaiting", i |-> i,
                  context |-> ApplyRequestProcessor(entry, s, context),
                  trace |-> Append(trace, invoked)]

\* The for loop of executeRequestPipeline from entry i on, run until it
\* suspends on an await, returns or throws.  trace lists the stages
\* invoked: [index, name, input] and, once the stage's result is known,
\* output.  A stage handed a Promise instead of a WorkingContext reads
\* context.metadata or calls a builder method of it and throws a TypeError.
RECURSIVE RequestLoop(_, _, _, _, _)
RequestLoop(entries, i, s, context, trace) ==
    IF i > Len(entries)
    THEN [pc |-> "resolved", i |-> i, context |-> context, trace |-> trace]
    ELSE LET entry == entries[i]
             invoked == [index |-> i, name |-> entry.name, input |-> context]
         IN IF IsSkipped(entry)
            THEN RequestLoop(entries, i + 1, s, context, trace)
            ELSE IF Throws(entry)
            THEN [pc |-> "rejected", i |-> i, context |-> context,
                  error |-> ProcessorError(entry),
                  trace |-> Append(trace, invoked)]
            ELSE IF ~IsWorkingContext(context)
            THEN [pc |-> "rejected", i |-> i, context |-> context,
                  error |-> [error |-> "TypeError", thrownBy |-> entry.name],
                  trace |-> Append(trace, invoked)]
            ELSE IF IsPromise(entry)
            THEN IF Awaits(entry)
                 THEN [pc |-> "awaiting", i |-> i, context |-> context,
                       trace |-> Append(trace, invoked)]
                 ELSE RequestLoop(entries, i + 1, s,
                        Threaded([promise |-> i], context),
                        Append(trace, invoked))
            ELSE LET result == ApplyRequestProcessor(entry, s, context)
                 IN RequestLoop(entries, i + 1, s,
                        Threaded(result, context),
                        Append(trace, invoked @@ [output |-> result]))

\* executeRequestPipeline(session) called at time t
ExecuteRequestPipeline(p, s, t) ==
    RequestLoop(p.requestProcessors, 1, s,
                NewWorkingContext(s.metadata.sessionId, t), <<>>)

\* The awaited promise settles: the loop takes its value and goes on, or
\* the await throws what the promise rejected with.
ResumeRequestPipeline(p, run, s) ==
    LET entry == p.requestProcessors[run.i]
        result == SettledContext(entry, run.context)
        n == Len(run.trace)
    IN IF Rejects(entry)
       THEN [pc |-> "rejected", i |-> run.i, context |-> run.context,
             error |-> ProcessorError(entry), trace |-> run.trace]
       ELSE RequestLoop(p.requestProcessors, run.i + 1, s,
                        Threaded(result, run.context),
                        [run.trace EXCEPT ![n] = @ @@ [output |-> result]])

\* The session a synchronous response processor returns.
ApplyResponseProcessor(entry, s, response) ==
    CASE entry.processor = "statistics" ->
            StatisticsResponseProcessor(s, response)

\* a loop that restores the statistics of the Session when a stage throws
RECURSIVE ResponseLoopRollingBack(_, _, _, _, _)
ResponseLoopRollingBack(entries, i, s, response, trace) ==
    IF i > Len(entries)
    THEN [pc |-> "resolved", i |-> i, trace |-> trace, session |-> s]
    ELSE LET entry == entries[i]
             invoked == [index |-> i, name |-> entry.name,
                         input |-> s.statistics]
         IN IF IsSkipped(entry)
            THEN ResponseLoopRollingBack(entries, i + 1, s, response, trace)
            ELSE IF Throws(entry)
            THEN [pc |-> "rejected", i |-> i,
                  session |-> [s EXCEPT !.statistics =
                                  IF trace = <<>> THEN @ ELSE trace[1].input],
                  error |-> ProcessorError(entry),
                  trace |-> Append(trace, invoked)]
            ELSE IF IsPromise(entry)
            THEN IF Awaits(entry)
                 THEN [pc |-> "awaiting", i |-> i, session |-> s,
                       trace |-> Append(trace, invoked)]
                 ELSE ResponseLoopRollingBack(entries, i + 1, s, response,
                                   Append(trace, invoked))
            ELSE LET result == ApplyResponseProcessor(entry, s, response)
                 IN ResponseLoopRollingBack(entries, i + 1, result, response,
                        Append(trace,
                               invoked @@ [output |-> result.statistics]))

\* The for loop of executeResponsePipeline from entry i on.  The processors
\* work on the Session object they are handed, which is the caller's: the
\* result's `session` is the state of that object.
RECURSIVE ResponseLoop(_, _, _, _, _)
ResponseLoop(entries, i, s, response, trace) ==
    IF i > Len(entries)
    THEN [pc |-> "resolved", i |-> i, trace |-> trace, session |-> s]
    ELSE LET entry == entries[i]
             invoked == [index |-> i, name |-> entry.name,
                         input |-> s.statistics]
         IN IF IsSkipped(entry)
            THEN ResponseLoop(entries, i + 1, s, response, trace)
            ELSE IF Throws(entry)
            THEN [pc |-> "rejected", i |-> i, session |-> s,
                  error |-> ProcessorError(entry),
                  trace |-> Append(trace, invoked)]
            ELSE IF IsPromise(entry)
            THEN IF Awaits(entry)
                 THEN [pc |-> "awaiting", i |-> i, session |-> s,
                       trace |-> Append(trace, invoked)]
                 ELSE ResponseLoop(entries, i + 1, s, response,
                                   Append(trace, invoked))
            ELSE LET result == ApplyResponseProcessor(entry, s, response)
                 IN ResponseLoop(entries, i + 1, result, response,
                        Append(trace,
                               invoked @@ [output |-> result.statistics]))

\* The awaited promise of response stage run.i settles: an asynchronous
\* processor that succeeds returns the session it was given.
ResumeResponsePipeline(p, run, s) ==
    LET entry == p.responseProcessors[run.i]
        n == Len(run.trace)
        settled == [run.trace EXCEPT ![n] = @ @@ [output |-> s.statistics]]
    IN IF Rejects(entry)
       THEN [pc |-> "rejected", i |-> run.i, session |-> s,
             error |-> ProcessorError(entry), trace |-> run.trace]
       ELSE ResponseLoop(p.responseProcessors, run.i + 1, s, run.response,
                         settled)

\* a factory that looks at useSlidingWindow before useCompactionFilter
CreateDefaultPipelineSlidingFirst(options) ==
    LET p1 == AddRequestProcessor(NewPipeline, "basic", "basic", <<>>)
        p2 == AddRequestProcessor(p1, "instructions", "instructions",
                [instructions |->
                    IF Has(options, "systemInstructions")
                    THEN options.systemInstructions ELSE <<>>])
        p3 == IF Has(options, "agentIdentity")
              THEN AddRequestProcessor(p2, "identity", "identity",
                                       options.agentIdentity)
              ELSE p2
        p4 == IF Has(options, "useSlidingWindow") /\ options.useSlidingWindow
              THEN AddRequestProcessor(p3, "sliding-window", "sliding-window",
                        [turns |->
                            IF Has(options, "windowSize")
                                /\ options.windowSize # 0
                            THEN options.windowSize ELSE 3])
              ELSE IF ~(Has(options, "useCompactionFilter")
                        /\ options.useCompactionFilter = FALSE)
              THEN AddRequestProcessor(p3, "compaction-filter",
                        "compaction-filter",
                        [keepCompactionSummaries |-> TRUE])
              ELSE AddRequestProcessor(p3, "contents", "contents",
                        [includeToolCalls |-> TRUE])
        p5 == IF Has(options, "enableCaching") /\ options.enableCaching
              THEN AddRequestProcessor(p4, "context-cache", "context-cache",
                                       [enableCaching |-> TRUE])
              ELSE p4
        p6 == IF Has(options, "contextWindowConfig")
              THEN AddRequestProcessor(p5, "token-limit", "token-limit",
                                       options.contextWindowConfig)
              ELSE p5
    IN AddResponseProcessor(p6, "statistics", "statistics", <<>>)

\* createDefaultPipeline(options)
CreateDefaultPipeline(options) ==
    LET p1 == AddRequestProcessor(NewPipeline, "basic", "basic", <<>>)
        p2 == AddRequestProcessor(p1, "instructions", "instructions",
                [instructions |->
                    IF Has(options, "systemInstructions")
                    THEN options.systemInstructions ELSE <<>>])
        p3 == IF Has(options, "agentIdentity")
              THEN AddRequestProcessor(p2, "identity", "identity",
                                       options.agentIdentity)
              ELSE p2
        p4 == IF ~(Has(options, "useCompactionFilter")
                    /\ options.useCompactionFilter = FALSE)
              THEN AddRequestProcessor(p3, "compaction-filter",
                        "compaction-filter",
                        [keepCompactionSummaries |-> TRUE])
              ELSE IF Has(options, "useSlidingWindow")
                        /\ options.useSlidingWindow
              THEN AddRequestProcessor(p3, "sliding-window", "sliding-window",
                        [turns |->
                            IF Has(options, "windowSize")
                                /\ options.windowSize # 0
                            THEN options.windowSize ELSE DefaultTurns])
              ELSE AddRequestProcessor(p3, "contents", "contents",
                        [includeToolCalls |-> TRUE])
        p5 == IF Has(options, "enableCaching") /\ options.enableCaching
              THEN AddRequestProcessor(p4, "context-cache", "context-cache",
                                       [enableCaching |-> TRUE])
              ELSE p4
        p6 == IF Has(options, "contextWindowConfig")
              THEN AddRequestProcessor(p5, "token-limit", "token-limit",
                                       options.contextWindowConfig)
              ELSE p5
    IN AddResponseProcessor(p6, "statistics", "statistics", <<>>)


\* ------------------------------------------------------------------------
\* Inputs
\* ------------------------------------------------------------------------
AgentId == "agent"

\* the ids of the logged events, in log order
RECURSIVE IdsOf(_)
IdsOf(events) ==
    IF events = <<>> THEN <<>> ELSE <<Head(events).id>> \o IdsOf(Tail(events))

\* The events a caller may append to session s at time t: a fresh id (the
\* position in the log, standing for generateEventId()), the current time
\* as timestamp, and a payload for each of the nine actions.  A compaction
\* event names every event logged before it.
EventInputs(s, t) ==
    LET id == Len(s.events) + 1
    IN {UserMessageEvent(id, t, "hi"),
        AgentMessageEvent(id, t, "hello there", <<>>),
        AgentMessageEvent(id, t, "ok", [tokensUsed |-> 7, modelUsed |-> "m"]),
        ToolCallEvent(id, t, "search", <<<<"q", "tea">>>>, "call_1"),
        ToolResultEvent(id, t, "search", "call_1", [string |-> "found"], TRUE),
        ErrorEvent(id, t),
        ControlSignalEvent(id, t),
        CompactionEvent(id, t, "earlier talk", IdsOf(s.events)),
        AgentTransferEvent(id, t),
        SystemInstructionEvent(id, t, "Be brief.", TRUE)}

\* Further payloads: a tool result that is an object, a compaction event
\* naming nothing, an instruction that is not static.
EventVariants(s, t) ==
    LET id == Len(s.events) + 1
    IN {ToolResultEvent(id, t, "search", "call_1",
                        [object |-> <<<<"hits", "2">>>>], FALSE),
        CompactionEvent(id, t, "earlier talk", <<>>),
        SystemInstructionEvent(id, t, "Be kind.", FALSE)}

\* Partial<CompactionConfig> values a caller passes to updateCompactionConfig
CompactionConfigUpdates ==
    {[enabled |-> Val(FALSE)],
     [enabled |-> Val(TRUE), triggerThreshold |-> Val(1),
      windowSize |-> Val(4), strategy |-> Val("semantic")],
     [enabled |-> Undefined]}

\* the opaque responses of the model transport
Responses ==
    {<<>>,
     [metadata |-> <<>>],
     [metadata |-> [responseTimeMs |-> 100, tokensUsed |-> 9]]}

Identity1 ==
    [name |-> "Ada", role |-> "helper", capabilities |-> <<"search", "math">>]

ContextWindowConfig(availableForHistory) ==
    [availableForHistory |-> availableForHistory,
     maxTokens |-> availableForHistory + 2, reservedForResponse |-> 1,
     reservedForTools |-> 1]

\* DefaultPipelineOptions values handed to createDefaultPipeline
PipelineOptions ==
    {<<>>,
     [systemInstructions |-> <<"You are Ada.">>, agentIdentity |-> Identity1,
      enableCaching |-> TRUE, contextWindowConfig |-> ContextWindowConfig(20)],
     [useCompactionFilter |-> FALSE, useSlidingWindow |-> TRUE,
      windowSize |-> 1],
     [useCompactionFilter |-> FALSE, contextWindowConfig |-> ContextWindowConfig(3)]}

\* ------------------------------------------------------------------------
\* State machine
\* ------------------------------------------------------------------------
Idle == [pc |-> "idle"]

\* no Session has been deserialized
NoSession == [none |-> TRUE]

NoResult == [op |-> "none"]

Init ==
    /\ now = 0
    /\ session = NewSession(AgentId, 0, "k3x9q0z1a")
    /\ pipeline = CreateDefaultPipeline(<<>>)
    /\ responsesRun = 0
    /\ samples = <<>>
    /\ restored = NoSession
    /\ reqRun = Idle
    /\ respRun = Idle
    /\ wctx = NewWorkingContext(session.metadata.sessionId, 0)
    /\ lastResult = NoResult

\* The times Date.now() may return at the next reading: the clock does
\* not run backwards.
ClockReadings == {t \in {now, now + 1} : t <= MaxClock}

\* session.addEvent(event), the clock reading t at the call
AddEvent(event, t) ==
    /\ now' = t
    /\ session' = SessionAddEvent(session, event, t)
    /\ lastResult' = [op |-> "addEvent", event |-> event]
    /\ UNCHANGED <<pipeline, reqRun, respRun, wctx,
                   responsesRun, samples, restored>>

\* session.needsCompaction()
NeedsCompaction ==
    /\ lastResult' = [op |-> "needsCompaction",
                      value |-> SessionNeedsCompaction(session)]
    /\ UNCHANGED <<session, now, pipeline, reqRun, respRun,
                   wctx, responsesRun, samples, restored>>

\* session.getEventsByTimeRange(startTime, endTime)
GetEventsByTimeRange(startTime, endTime) ==
    /\ lastResult' =
        [op |-> "getEventsByTimeRange", startTime |-> startTime,
         endTime |-> endTime,
         value |-> SessionGetEventsByTimeRange(session, startTime, endTime)]
    /\ UNCHANGED <<session, now, pipeline, reqRun, respRun,
                   wctx, responsesRun, samples, restored>>

\* session.getEventsByAction(action)
GetEventsByAction(action) ==
    /\ lastResult' = [op |-> "getEventsByAction", action |-> action,
                      value |-> SessionGetEventsByAction(session, action)]
    /\ UNCHANGED <<session, now, pipeline, reqRun, respRun,
                   wctx, responsesRun, samples, restored>>

\* session.getLastNEvents(n)
GetLastNEvents(n) ==
    /\ lastResult' = [op |-> "getLastNEvents", n |-> n,
                      value |-> SessionGetLastNEvents(session, n)]
    /\ UNCHANGED <<session, now, pipeline, reqRun, respRun,
                   wctx, responsesRun, samples, restored>>

\* session.getConversationTurns()
GetConversationTurns ==
    /\ lastResult' = [op |-> "getConversationTurns",
                      value |-> SessionGetConversationTurns(session)]
    /\ UNCHANGED <<session, now, pipeline, reqRun, respRun,
                   wctx, responsesRun, samples, restored>>

\* session.updateCompactionConfig(updates)
UpdateCompactionConfig(updates) ==
    /\ session' = SessionUpdateCompactionConfig(session, updates)
    /\ lastResult' = [op |-> "updateCompactionConfig"]
    /\ UNCHANGED <<now, pipeline, reqRun, respRun, wctx,
                   responsesRun, samples, restored>>

\* Session.deserialize(session.serialize()): the caller gets a second
\* Session object, the live one is left as it is.
SerializeDeserialize ==
    /\ \E r \in RandomSuffixes :
        lastResult' =
            [op |-> "deserialize",
             value |-> SessionDeserialize(SessionSerialize(session), now, r)]
    /\ UNCHANGED <<session, now, pipeline, reqRun, respRun,
                   wctx, responsesRun, samples, restored>>

\* What the caller of executeRequestPipeline gets when the call is over:
\* the context the promise resolves to, or the error it rejects with.
RequestResult(run) ==
    IF run.pc = "rejected"
    THEN [op |-> "executeRequestPipeline", outcome |-> "rejected",
          error |-> run.error, trace |-> run.trace]
    ELSE [op |-> "executeRequestPipeline", outcome |-> run.pc,
          value |-> run.context, trace |-> run.trace]

\* What the caller of executeResponsePipeline gets: the Session (here its
\* statistics at that moment), or the error.
ResponseResult(run) ==
    IF run.pc = "rejected"
    THEN [op |-> "executeResponsePipeline", outcome |-> "rejected",
          error |-> run.error, trace |-> run.trace]
    ELSE [op |-> "executeResponsePipeline", outcome |-> run.pc,
          trace |-> run.trace, value |-> run.session.statistics]

\* a request pipeline call that stamps the Session it reads
StartRequestTouching ==
    /\ reqRun.pc = "idle"
    /\ LET run == ExecuteRequestPipeline(pipeline, session, now)
       IN IF run.pc = "awaiting"
          THEN /\ reqRun' = run
               /\ UNCHANGED lastResult
          ELSE /\ reqRun' = Idle
               /\ lastResult' = RequestResult(run)
    /\ session' = [session EXCEPT !.metadata.updatedAt = now + 1]
    /\ UNCHANGED <<now, pipeline, respRun, wctx,
                   responsesRun, samples, restored>>

\* pipeline.executeRequestPipeline(session) is called: the loop runs to its
\* first await, or to its end.
StartRequest ==
    /\ reqRun.pc = "idle"
    /\ LET run == ExecuteRequestPipeline(pipeline, session, now)
       IN IF run.pc = "awaiting"
          THEN /\ reqRun' = run
               /\ UNCHANGED lastResult
          ELSE /\ reqRun' = Idle
               /\ lastResult' = RequestResult(run)
    /\ UNCHANGED <<session, now, pipeline, respRun, wctx,
                   responsesRun, samples, restored>>

\* The promise the request pipeline awaits settles.
SettleRequest ==
    /\ reqRun.pc = "awaiting"
    /\ LET run == ResumeRequestPipeline(pipeline, reqRun, session)
       IN IF run.pc = "awaiting"
          THEN /\ reqRun' = run
               /\ UNCHANGED lastResult
          ELSE /\ reqRun' = Idle
               /\ lastResult' = RequestResult(run)
    /\ UNCHANGED <<session, now, pipeline, respRun, wctx,
                   responsesRun, samples, restored>>

\* the latency a response carries: metadata.responseTimeMs, if it is there
SampleOf(response) ==
    IF Has(response, "metadata") /\ Has(response.metadata, "responseTimeMs")
    THEN <<response.metadata.responseTimeMs>> ELSE <<>>

\* pipeline.executeResponsePipeline(session, response, context) is called.
StartResponse(response) ==
    /\ respRun.pc = "idle"
    /\ responsesRun < MaxResponses
    /\ responsesRun' = responsesRun + 1
    /\ samples' = samples \o SampleOf(response)
    /\ LET run == ResponseLoop(pipeline.responseProcessors, 1, session,
                               response, <<>>)
       IN /\ session' = run.session
          /\ IF run.pc = "awaiting"
             THEN /\ respRun' = [pc |-> "awaiting", i |-> run.i,
                                 trace |-> run.trace, response |-> response]
                  /\ UNCHANGED lastResult
             ELSE /\ respRun' = Idle
                  /\ lastResult' = ResponseResult(run)
    /\ UNCHANGED <<now, pipeline, reqRun, wctx, restored>>

\* The promise the response pipeline awaits settles.
SettleResponse ==
    /\ respRun.pc = "awaiting"
    /\ LET run == ResumeResponsePipeline(pipeline, respRun, session)
       IN /\ session' = run.session
          /\ IF run.pc = "awaiting"
             THEN /\ respRun' = [pc |-> "awaiting", i |-> run.i,
                                 trace |-> run.trace,
                                 response |-> respRun.response]
                  /\ UNCHANGED lastResult
             ELSE /\ respRun' = Idle
                  /\ lastResult' = ResponseResult(run)
    /\ UNCHANGED <<now, pipeline, reqRun, wctx,
                   responsesRun, samples, restored>>

\* The Session and the calls that change it or decide on compaction; its
\* pipeline is one assembled by createDefaultPipeline, whose processors are
\* all synchronous, so that a pipeline call runs to its end.
Next ==
    \/ \E t \in ClockReadings :
          \E event \in EventInputs(session, t) :
              Len(session.events) < MaxEvents /\ AddEvent(event, t)
    \/ \E updates \in CompactionConfigUpdates : UpdateCompactionConfig(updates)
    \/ NeedsCompaction
    \/ SerializeDeserialize
    \/ \E response \in Responses : StartResponse(response)

Spec == Init /\ [][Next]_vars


\* ------------------------------------------------------------------------
\* Pipeline runs over a live session
\* ------------------------------------------------------------------------

\* new ProcessorPipeline(config): the lists are the caller's
PipelineFromConfig(config) ==
    [requestProcessors |-> config.requestProcessors,
     responseProcessors |-> config.responseProcessors]

\* A pipeline of the caller's own: entries with enabled true, false and
\* absent, two asynchronous request stages and two asynchronous response
\* stages among synchronous ones.
CustomPipelineConfig ==
    [requestProcessors |->
        <<[name |-> "basic", processor |-> "basic", enabled |-> TRUE],
          [name |-> "memory", processor |-> "memory-search"],
          [name |-> "raw-contents", processor |-> "contents",
           config |-> [includeToolCalls |-> TRUE], enabled |-> FALSE],
          [name |-> "filtered", processor |-> "compaction-filter",
           config |-> [keepCompactionSummaries |-> TRUE]],
          [name |-> "memory-again", processor |-> "memory-search",
           enabled |-> TRUE]>>,
     responseProcessors |->
        <<[name |-> "audit", processor |-> "audit"],
          [name |-> "muted", processor |-> "statistics", enabled |-> FALSE],
          [name |-> "statistics", processor |-> "statistics"],
          [name |-> "audit-again", processor |-> "audit", enabled |-> TRUE]>>]

\* a pipeline whose only entries are switched off
MutedPipelineConfig ==
    [requestProcessors |->
        <<[name |-> "basic", processor |-> "basic", enabled |-> FALSE]>>,
     responseProcessors |->
        <<[name |-> "statistics", processor |-> "statistics",
           enabled |-> FALSE]>>]

Pipelines ==
    {CreateDefaultPipeline(options) : options \in PipelineOptions}
        \cup {PipelineFromConfig(CustomPipelineConfig),
              PipelineFromConfig(MutedPipelineConfig)}

\* the events appended while pipelines run
PipelineEventInputs(s, t) ==
    LET id == Len(s.events) + 1
    IN {UserMessageEvent(id, t, "hi"),
        AgentMessageEvent(id, t, "ok", [tokensUsed |-> 7, modelUsed |-> "m"]),
        CompactionEvent(id, t, "earlier talk", IdsOf(s.events))}

PipelineResponses ==
    {[metadata |-> [responseTimeMs |-> 0]],
     [metadata |-> [responseTimeMs |-> 100, tokensUsed |-> 9]]}

InitPipeline ==
    /\ now = 0
    /\ session = NewSession(AgentId, 0, "k3x9q0z1a")
    /\ pipeline \in Pipelines
    /\ responsesRun = 0
    /\ samples = <<>>
    /\ restored = NoSession
    /\ reqRun = Idle
    /\ respRun = Idle
    /\ wctx = NewWorkingContext(session.metadata.sessionId, 0)
    /\ lastResult = NoResult

\* Every Session operation and both pipeline calls, on one session and one
\* pipeline.  A call that awaits leaves room for the Session operations
\* until its promise settles; the caller keeps one pipeline call in flight
\* per session at a time.
NextPipeline ==
    \/ \E event \in PipelineEventInputs(session, now) :
          Len(session.events) < MaxEvents /\ AddEvent(event, now)
    \/ NeedsCompaction
    \/ GetEventsByTimeRange(0, now)
    \/ GetEventsByAction(COMPACTION)
    \/ GetLastNEvents(1)
    \/ GetConversationTurns
    \/ UpdateCompactionConfig([enabled |-> Val(FALSE)])
    \/ SerializeDeserialize
    \/ respRun = Idle /\ StartRequest
    \/ SettleRequest
    \/ \E response \in PipelineResponses : reqRun = Idle /\ StartResponse(response)
    \/ SettleResponse

SpecPipeline == InitPipeline /\ [][NextPipeline]_vars

\* ------------------------------------------------------------------------
\* Conversation turns over longer logs
\* ------------------------------------------------------------------------

\* the events of a conversation: the four actions getConversationTurns
\* groups, and one it passes over
LogEventInputs(s, t) ==
    LET id == Len(s.events) + 1
    IN {UserMessageEvent(id, t, "hi"),
        AgentMessageEvent(id, t, "hello there", <<>>),
        ToolCallEvent(id, t, "search", <<<<"q", "tea">>>>, "call_1"),
        ToolResultEvent(id, t, "search", "call_1", [string |-> "found"], TRUE),
        ErrorEvent(id, t)}

NextLog ==
    \/ \E event \in LogEventInputs(session, now) :
          Len(session.events) < MaxLogLen /\ AddEvent(event, now)
    \/ GetConversationTurns

SpecLog == Init /\ [][NextLog]_vars

\* A log read from its end: every n from 0 to one more than the log can hold
NextLastN ==
    \/ \E event \in LogEventInputs(session, now) :
          Len(session.events) < MaxLogLen /\ AddEvent(event, now)
    \/ \E n \in 0..(MaxLogLen + 1) : GetLastNEvents(n)

SpecLastN == Init /\ [][NextLastN]_vars

\* ------------------------------------------------------------------------
\* A Working Context under construction
\* ------------------------------------------------------------------------

Instructions == {"Be brief.", "Answer in one short sentence in English."}

Identity2 == [name |-> "A", role |-> "r", capabilities |-> <<"x">>]

Contents ==
    {[role |-> "user", content |-> "abcd"],
     [role |-> "assistant", content |-> "abcdefghi"]}

MemoryResultLists == {<<"likes tea">>, <<"likes tea", "has a cat">>}

Artifact1 ==
    [id |-> "a1", name |-> "notes", type |-> "text", summary |-> "s"]

\* the values of availableForHistory tried
Budgets == {0, 1, 2, 3, 4, 6, 10, 13}

NoBuildResult == [op |-> "build"]

\* context.addSystemInstruction(instruction)
AddSystemInstructionCall(instruction) ==
    /\ wctx' = AddSystemInstruction(wctx, instruction)
    /\ lastResult' = NoBuildResult
    /\ UNCHANGED <<session, now, pipeline, reqRun, respRun,
                   responsesRun, samples, restored>>

\* context.setAgentIdentity(identity)
SetAgentIdentityCall(identity) ==
    /\ wctx' = SetAgentIdentity(wctx, identity)
    /\ lastResult' = NoBuildResult
    /\ UNCHANGED <<session, now, pipeline, reqRun, respRun,
                   responsesRun, samples, restored>>

\* context.addContent(content)
AddContentCall(content) ==
    /\ wctx' = AddContent(wctx, content)
    /\ lastResult' = NoBuildResult
    /\ UNCHANGED <<session, now, pipeline, reqRun, respRun,
                   responsesRun, samples, restored>>

\* the lists of at most n items of the set S
ListsUpTo(S, n) == UNION {[1..k -> S] : k \in 0..n}

\* context.addContents(contents): every item of the list is pushed in the
\* one call
AddContentsCall(contents) ==
    /\ wctx' = AddContents(wctx, contents)
    /\ lastResult' = NoBuildResult
    /\ UNCHANGED <<session, now, pipeline, reqRun, respRun,
                   responsesRun, samples, restored>>

\* context.addMemoryResults(results)
AddMemoryResultsCall(results) ==
    /\ wctx' = AddMemoryResults(wctx, results)
    /\ lastResult' = NoBuildResult
    /\ UNCHANGED <<session, now, pipeline, reqRun, respRun,
                   responsesRun, samples, restored>>

\* context.addArtifactReference(reference)
AddArtifactReferenceCall(reference) ==
    /\ wctx' = AddArtifactReference(wctx, reference)
    /\ lastResult' = NoBuildResult
    /\ UNCHANGED <<session, now, pipeline, reqRun, respRun,
                   responsesRun, samples, restored>>

\* context.estimateTokenCount()
EstimateTokenCountCall ==
    /\ lastResult' = [op |-> "estimateTokenCount",
                      value |-> EstimateTokenCount(wctx)]
    /\ UNCHANGED <<session, now, pipeline, reqRun, respRun,
                   responsesRun, wctx, samples, restored>>

\* context.fitsWithinLimit(config)
FitsWithinLimitCall(config) ==
    /\ lastResult' = [op |-> "fitsWithinLimit", config |-> config,
                      value |-> FitsWithinLimit(wctx, config)]
    /\ UNCHANGED <<session, now, pipeline, reqRun, respRun,
                   responsesRun, wctx, samples, restored>>

\* context.truncateToFit(config): the context is changed in place
TruncateToFitCall(config) ==
    /\ wctx' = TruncateToFit(wctx, config)
    /\ lastResult' = [op |-> "truncateToFit", config |-> config]
    /\ UNCHANGED <<session, now, pipeline, reqRun, respRun,
                   responsesRun, samples, restored>>

\* tokenLimitRequestProcessor(session, context, config)
TokenLimitCall(config) ==
    /\ wctx' = TokenLimitRequestProcessor(session, wctx, config)
    /\ lastResult' = [op |-> "tokenLimitRequestProcessor", config |-> config]
    /\ UNCHANGED <<session, now, pipeline, reqRun, respRun,
                   responsesRun, samples, restored>>

\* The builder calls, each list filled up to a bound, and the token
\* operations.
NextContext ==
    \/ \E instruction \in Instructions :
          /\ Len(wctx.systemInstructions) < MaxInstructions
          /\ AddSystemInstructionCall(instruction)
    \/ ~Has(wctx, "agentIdentity") /\ SetAgentIdentityCall(Identity2)
    \/ \E content \in Contents :
          Len(wctx.contents) < MaxContents /\ AddContentCall(content)
    \/ \E contents \in ListsUpTo(Contents,
                                  MaxContents - Len(wctx.contents)) :
          AddContentsCall(contents)
    \/ \E results \in MemoryResultLists :
          wctx.memoryResults = <<>> /\ AddMemoryResultsCall(results)
    \/ wctx.artifactReferences = <<>> /\ AddArtifactReferenceCall(Artifact1)
    \/ EstimateTokenCountCall
    \/ \E a \in Budgets : FitsWithinLimitCall(ContextWindowConfig(a))
    \/ \E a \in Budgets : TruncateToFitCall(ContextWindowConfig(a))
    \/ \E config \in {<<>>, ContextWindowConfig(3)} : TokenLimitCall(config)

SpecContext == Init /\ [][NextContext]_vars

\* ------------------------------------------------------------------------
\* A Working Context handed to toModelFormat
\* ------------------------------------------------------------------------

FormatContents ==
    {[role |-> "user", content |-> "hi"],
     [role |-> "assistant", content |-> "ok", name |-> "agent"],
     [role |-> "tool", content |-> "found", name |-> "search",
      tool_call_id |-> "call_1"],
     [role |-> "tool", content |-> "found"],
     [role |-> "tool", content |-> "ok", tool_call_id |-> ""]}

Model1 == "@cf/mistralai/mistral-small-3.1-24b-instruct"

Model2 == "@cf/meta/llama-3.1-8b-instruct"

\* the arguments of toModelFormat tried: none, the supported model type
\* with each format and without, with a model or without, and two model
\* types that are not supported
ToModelFormatArgs ==
    {<<>>,
     [modelType |-> "workers-ai"],
     [modelType |-> "workers-ai", options |-> <<>>],
     [modelType |-> "workers-ai", options |-> [format |-> "chat_completions"]],
     [modelType |-> "workers-ai",
      options |-> [format |-> "native", model |-> Model1]],
     [modelType |-> "workers-ai", options |-> [model |-> Model2]],
     [modelType |-> "workers-ai", options |-> [format |-> "responses"]],
     [modelType |-> "openai"],
     [modelType |-> "anthropic", options |-> [format |-> "responses"]]}

\* context.toModelFormat(modelType, options)
ToModelFormatCall(args) ==
    /\ lastResult' = [op |-> "toModelFormat", args |-> args]
                        @@ ToModelFormat(wctx, args)
    /\ UNCHANGED <<session, now, pipeline, reqRun, respRun,
                   responsesRun, wctx, samples, restored>>

NextFormat ==
    \/ /\ Len(wctx.systemInstructions) < MaxInstructions
       /\ AddSystemInstructionCall("Be brief.")
    \/ ~Has(wctx, "agentIdentity") /\ SetAgentIdentityCall(Identity1)
    \/ \E content \in FormatContents :
          Len(wctx.contents) < MaxContents /\ AddContentCall(content)
    \/ \E contents \in ListsUpTo(FormatContents,
                                  MaxContents - Len(wctx.contents)) :
          AddContentsCall(contents)
    \/ \E results \in MemoryResultLists :
          wctx.memoryResults = <<>> /\ AddMemoryResultsCall(results)
    \/ wctx.artifactReferences = <<>> /\ AddArtifactReferenceCall(Artifact1)
    \/ \E args \in ToModelFormatArgs : ToModelFormatCall(args)

SpecFormat == Init /\ [][NextFormat]_vars

\* ------------------------------------------------------------------------
\* Pipelines with a stage that fails
\* ------------------------------------------------------------------------

\* a stage that throws between synchronous ones
ThrowingPipelineConfig ==
    [requestProcessors |->
        <<[name |-> "basic", processor |-> "basic"],
          [name |-> "broken", processor |-> "faulty"],
          [name |-> "contents", processor |-> "contents"]>>,
     responseProcessors |->
        <<[name |-> "statistics", processor |-> "statistics"],
          [name |-> "broken", processor |-> "faulty", enabled |-> TRUE],
          [name |-> "statistics-again", processor |-> "statistics"]>>]

\* a stage whose promise rejects, after one whose promise resolves
RejectingPipelineConfig ==
    [requestProcessors |->
        <<[name |-> "basic", processor |-> "basic"],
          [name |-> "memory", processor |-> "memory-search"],
          [name |-> "broken", processor |-> "faulty-async"],
          [name |-> "contents", processor |-> "contents"]>>,
     responseProcessors |->
        <<[name |-> "statistics", processor |-> "statistics"],
          [name |-> "audit", processor |-> "audit"],
          [name |-> "broken", processor |-> "faulty-async"],
          [name |-> "statistics-again", processor |-> "statistics"]>>]

\* failing stages that are switched off
SwitchedOffPipelineConfig ==
    [requestProcessors |->
        <<[name |-> "broken", processor |-> "faulty", enabled |-> FALSE],
          [name |-> "basic", processor |-> "basic"]>>,
     responseProcessors |->
        <<[name |-> "broken", processor |-> "faulty-async",
           enabled |-> FALSE],
          [name |-> "statistics", processor |-> "statistics"]>>]

FailingPipelines ==
    {PipelineFromConfig(ThrowingPipelineConfig),
     PipelineFromConfig(RejectingPipelineConfig),
     PipelineFromConfig(SwitchedOffPipelineConfig)}

InitFailure ==
    /\ now = 0
    /\ session = NewSession(AgentId, 0, "k3x9q0z1a")
    /\ pipeline \in FailingPipelines
    /\ responsesRun = 0
    /\ samples = <<>>
    /\ restored = NoSession
    /\ reqRun = Idle
    /\ respRun = Idle
    /\ wctx = NewWorkingContext(session.metadata.sessionId, 0)
    /\ lastResult = NoResult

\* addEvent and both pipeline calls on a pipeline with a failing stage
NextFailure ==
    \/ \E event \in PipelineEventInputs(session, now) :
          Len(session.events) < MaxEvents /\ AddEvent(event, now)
    \/ respRun = Idle /\ StartRequest
    \/ SettleRequest
    \/ \E response \in PipelineResponses : reqRun = Idle /\ StartResponse(response)
    \/ SettleResponse

SpecFailure == InitFailure /\ [][NextFailure]_vars

\* ------------------------------------------------------------------------
\* The default factory under every combination of options
\* ------------------------------------------------------------------------

\* the records holding key k with one of values, and the empty record for
\* the key left out
OptionalKey(k, values) == {<<>>} \cup {[x \in {k} |-> v] : v \in values}

\* every DefaultPipelineOptions value over: each key left out or given,
\* the three flags given as true or as false
AllPipelineOptions ==
    {a @@ b @@ c @@ d @@ e @@ f @@ g :
        a \in OptionalKey("systemInstructions", {<<"You are Ada.">>}),
        b \in OptionalKey("agentIdentity", {Identity1}),
        c \in OptionalKey("useCompactionFilter", {TRUE, FALSE}),
        d \in OptionalKey("useSlidingWindow", {TRUE, FALSE}),
        e \in OptionalKey("windowSize", {1}),
        f \in OptionalKey("enableCaching", {TRUE, FALSE}),
        g \in OptionalKey("contextWindowConfig", {ContextWindowConfig(3)})}

\* pipeline = createDefaultPipeline(options), before the conversation
CreatePipeline(options) ==
    /\ session.events = <<>>
    /\ pipeline' = CreateDefaultPipeline(options)
    /\ lastResult' = [op |-> "createDefaultPipeline", options |-> options]
    /\ UNCHANGED <<session, now, reqRun, respRun, wctx,
                   responsesRun, samples, restored>>

NextFactory ==
    \/ \E options \in AllPipelineOptions : CreatePipeline(options)
    \/ \E event \in EventInputs(session, now) :
          Len(session.events) < MaxEvents /\ AddEvent(event, now)
    \/ StartRequest

SpecFactory == Init /\ [][NextFactory]_vars

\* ------------------------------------------------------------------------
\* A Session and its deserialized copy, driven in lockstep
\* ------------------------------------------------------------------------

LockstepEventInputs(s, t) ==
    LET id == Len(s.events) + 1
    IN {UserMessageEvent(id, t, "hi"),
        AgentMessageEvent(id, t, "ok", [tokensUsed |-> 7, modelUsed |-> "m"]),
        ToolCallEvent(id, t, "search", <<<<"q", "tea">>>>, "call_1")}

\* restored = Session.deserialize(session.serialize()): the caller keeps
\* the second Session object
Restore ==
    /\ restored = NoSession
    /\ \E r \in RandomSuffixes :
          restored' = SessionDeserialize(SessionSerialize(session), now, r)
    /\ lastResult' = [op |-> "deserialize", value |-> restored']
    /\ UNCHANGED <<session, now, pipeline, reqRun, respRun, wctx,
                   responsesRun, samples>>

\* session.addEvent(event); restored.addEvent(event): each call reads the
\* clock, t at the first and u at the second
LockstepAddEvent(event, t, u) ==
    /\ restored # NoSession
    /\ now' = u
    /\ session' = SessionAddEvent(session, event, t)
    /\ restored' = SessionAddEvent(restored, event, u)
    /\ lastResult' = [op |-> "addEvent", event |-> event]
    /\ UNCHANGED <<pipeline, reqRun, respRun, wctx, responsesRun, samples>>

\* session.updateCompactionConfig(updates);
\* restored.updateCompactionConfig(updates)
LockstepUpdateCompactionConfig(updates) ==
    /\ restored # NoSession
    /\ session' = SessionUpdateCompactionConfig(session, updates)
    /\ restored' = SessionUpdateCompactionConfig(restored, updates)
    /\ lastResult' = [op |-> "updateCompactionConfig"]
    /\ UNCHANGED <<now, pipeline, reqRun, respRun, wctx, responsesRun,
                   samples>>

\* pipeline.executeResponsePipeline(session, response, context) and the
\* same call on restored; the processors of the pipeline are synchronous
LockstepResponse(response) ==
    /\ restored # NoSession
    /\ responsesRun < MaxResponses
    /\ responsesRun' = responsesRun + 1
    /\ samples' = samples \o SampleOf(response)
    /\ LET run == ResponseLoop(pipeline.responseProcessors, 1, session,
                               response, <<>>)
           twin == ResponseLoop(pipeline.responseProcessors, 1, restored,
                                response, <<>>)
       IN /\ session' = run.session
          /\ restored' = twin.session
          /\ lastResult' = ResponseResult(run)
    /\ UNCHANGED <<now, pipeline, reqRun, respRun, wctx>>

NextLockstep ==
    \/ \E event \in LockstepEventInputs(session, now) :
          /\ restored = NoSession
          /\ Len(session.events) < MaxEvents
          /\ AddEvent(event, now)
    \/ \E updates \in CompactionConfigUpdates :
          restored = NoSession /\ UpdateCompactionConfig(updates)
    \/ \E response \in Responses :
          restored = NoSession /\ StartResponse(response)
    \/ Restore
    \/ \E event \in LockstepEventInputs(session, now) :
          \E t \in ClockReadings :
             \E u \in {r \in {t, t + 1} : r <= MaxClock} :
                /\ Len(session.events) < MaxEvents + 1
                /\ LockstepAddEvent(event, t, u)
    \/ \E updates \in CompactionConfigUpdates :
          LockstepUpdateCompactionConfig(updates)
    \/ \E response \in Responses : LockstepResponse(response)

SpecLockstep == Init /\ [][NextLockstep]_vars

\* ------------------------------------------------------------------------
\* Logs of events with and without token counts
\* ------------------------------------------------------------------------

\* agent messages with tokensUsed 7, 3, 0 and without, a user message, and
\* a tool call that carries a tokensUsed field of its own
TokenEventInputs(s, t) ==
    LET id == Len(s.events) + 1
    IN {UserMessageEvent(id, t, "hi"),
        AgentMessageEvent(id, t, "hello there", <<>>),
        AgentMessageEvent(id, t, "ok", [tokensUsed |-> 7]),
        AgentMessageEvent(id, t, "sure", [tokensUsed |-> 3]),
        AgentMessageEvent(id, t, "", [tokensUsed |-> 0]),
        ToolCallEvent(id, t, "search", <<<<"q", "tea">>>>, "call_1")
            @@ [tokensUsed |-> 5]}

NextTokens ==
    \/ \E event \in TokenEventInputs(session, now) :
          Len(session.events) < MaxLogLen /\ AddEvent(event, now)
    \/ NeedsCompaction

SpecTokens == Init /\ [][NextTokens]_vars

\* ------------------------------------------------------------------------
\* Logs of events whose ids come from generateEventId
\* ------------------------------------------------------------------------

\* generateEventId() at time t, the random suffix being r:
\* `event_${Date.now()}_${Math.random().toString(36).substr(2, 9)}`
GenerateEventId(t, r) == <<"event", t, r>>

\* the events a caller builds at time t with a generated id
GeneratedEventInputs(t) ==
    {UserMessageEvent(GenerateEventId(t, r), t, "hi") : r \in RandomSuffixes}
    \cup {AgentMessageEvent(GenerateEventId(t, r), t, "ok", <<>>) :
                r \in RandomSuffixes}

NextIds ==
    \/ \E t \in ClockReadings :
        \E event \in GeneratedEventInputs(t) :
            Len(session.events) < MaxLogLen /\ AddEvent(event, t)
    \/ \E i \in DOMAIN session.events :
            Len(session.events) < MaxLogLen /\ AddEvent(session.events[i], now)

SpecIds == Init /\ [][NextIds]_vars

\* ------------------------------------------------------------------------
\* Session.deserialize on inputs of any shape
\* ------------------------------------------------------------------------

SerializedFields == {"metadata", "events", "statistics", "compactionConfig"}

\* values that are neither the object nor the array a field is to hold
WrongValues == {JNull, JNumber(7), JString(<<"x", "y">>)}

\* the snapshot of s and what becomes of it with one field left out, with
\* one field of another type, and with a field added; values that are no
\* object; a string that is not JSON
DeserializeInputs(s) ==
    LET snapshot == SessionSnapshot(s)
        members == snapshot.members
    IN {snapshot, NotJSON, JNull, JNumber(7), JString(<<"x">>),
        JArray(<<>>), JObject(<<>>),
        JObject(members @@ [extra |-> JNumber(7)])}
       \cup {JObject([k \in SerializedFields \ {f} |-> members[k]]) :
                f \in SerializedFields}
       \cup {JObject([members EXCEPT ![f] = v]) :
                f \in SerializedFields, v \in WrongValues}
       \cup {JObject([members EXCEPT !.events = JObject(<<>>)]),
              JObject([members EXCEPT !.statistics = JArray(<<>>)]),
              JObject([members EXCEPT !.compactionConfig = JArray(<<>>)]),
              JObject([members EXCEPT !.metadata = JArray(<<>>)])}

\* Session.deserialize(data)
Deserialize(data) ==
    /\ \E r \in RandomSuffixes :
        lastResult' =
            [op |-> "deserialize", data |-> data]
                @@ SessionDeserializeAny(data, now, r)
    /\ UNCHANGED <<session, now, pipeline, reqRun, respRun,
                   wctx, responsesRun, samples, restored>>

NextDeserialize ==
    \/ \E event \in PipelineEventInputs(session, now) :
          Len(session.events) < MaxEvents /\ AddEvent(event, now)
    \/ \E data \in DeserializeInputs(session) : Deserialize(data)

SpecDeserialize == Init /\ [][NextDeserialize]_vars

\* ------------------------------------------------------------------------
\* Logs with compaction events under the compaction filter
\* ------------------------------------------------------------------------

MaxCompactedLog == 4

\* the ascending sequence of the ids in a set of log positions
RECURSIVE SeqOfIds(_)
SeqOfIds(ids) ==
    IF ids = {} THEN <<>>
    ELSE LET least == CHOOSE x \in ids : \A y \in ids : x <= y
         IN <<least>> \o SeqOfIds(ids \ {least})

\* messages, tool events, and compaction events naming any set of the
\* events logged so far (other compaction events among them)
CompactionEventInputs(s, t) ==
    LET id == Len(s.events) + 1
    IN {UserMessageEvent(id, t, "hi"),
        AgentMessageEvent(id, t, "ok", <<>>),
        ToolCallEvent(id, t, "search", <<<<"q", "tea">>>>, "call_1"),
        ToolResultEvent(id, t, "search", "call_1", [string |-> "found"], TRUE)}
       \cup {CompactionEvent(id, t, "earlier talk", SeqOfIds(ids)) :
                ids \in SUBSET (1..Len(s.events))}

\* the filter with keepCompactionSummaries true, alone and after basic
CompactionFilterPipelines ==
    {PipelineFromConfig(
        [requestProcessors |->
            <<[name |-> "compaction-filter",
               processor |-> "compaction-filter",
               config |-> [keepCompactionSummaries |-> TRUE]]>>,
         responseProcessors |-> <<>>]),
     PipelineFromConfig(
        [requestProcessors |->
            <<[name |-> "basic", processor |-> "basic"],
              [name |-> "compaction-filter",
               processor |-> "compaction-filter",
               config |-> [keepCompactionSummaries |-> TRUE]]>>,
         responseProcessors |-> <<>>])}

InitCompaction ==
    /\ now = 0
    /\ session = NewSession(AgentId, 0, "k3x9q0z1a")
    /\ pipeline \in CompactionFilterPipelines
    /\ responsesRun = 0
    /\ samples = <<>>
    /\ restored = NoSession
    /\ reqRun = Idle
    /\ respRun = Idle
    /\ wctx = NewWorkingContext(session.metadata.sessionId, 0)
    /\ lastResult = NoResult

NextCompaction ==
    \/ \E event \in CompactionEventInputs(session, now) :
          Len(session.events) < MaxCompactedLog /\ AddEvent(event, now)
    \/ StartRequest

SpecCompaction == InitCompaction /\ [][NextCompaction]_vars

\* the filter with keepCompactionSummaries false, alone and after basic
SummaryDroppingPipelines ==
    {PipelineFromConfig(
        [requestProcessors |->
            <<[name |-> "compaction-filter",
               processor |-> "compaction-filter",
               config |-> [keepCompactionSummaries |-> FALSE]]>>,
         responseProcessors |-> <<>>]),
     PipelineFromConfig(
        [requestProcessors |->
            <<[name |-> "basic", processor |-> "basic"],
              [name |-> "compaction-filter",
               processor |-> "compaction-filter",
               config |-> [keepCompactionSummaries |-> FALSE]]>>,
         responseProcessors |-> <<>>])}

InitSummaryDropping ==
    /\ now = 0
    /\ session = NewSession(AgentId, 0, "k3x9q0z1a")
    /\ pipeline \in SummaryDroppingPipelines
    /\ responsesRun = 0
    /\ samples = <<>>
    /\ restored = NoSession
    /\ reqRun = Idle
    /\ respRun = Idle
    /\ wctx = NewWorkingContext(session.metadata.sessionId, 0)
    /\ lastResult = NoResult

SpecSummaryDropping == InitSummaryDropping /\ [][NextCompaction]_vars

\* ------------------------------------------------------------------------
\* Conversations of user and agent messages under the default pipelines
\* ------------------------------------------------------------------------

MaxTurns == 3

\* the options that leave useCompactionFilter out and give no window config
DefaultFilterOptions ==
    {options \in AllPipelineOptions :
        /\ "useCompactionFilter" \notin DOMAIN options
        /\ "contextWindowConfig" \notin DOMAIN options}

TurnEventInputs(s, t) ==
    LET id == Len(s.events) + 1
    IN {UserMessageEvent(id, t, "hi"),
        AgentMessageEvent(id, t, "ok", [tokensUsed |-> 7, modelUsed |-> "m"])}

InitTurns ==
    /\ now = 0
    /\ session = NewSession(AgentId, 0, "k3x9q0z1a")
    /\ pipeline \in {CreateDefaultPipeline(options) :
                        options \in DefaultFilterOptions}
    /\ responsesRun = 0
    /\ samples = <<>>
    /\ restored = NoSession
    /\ reqRun = Idle
    /\ respRun = Idle
    /\ wctx = NewWorkingContext(session.metadata.sessionId, 0)
    /\ lastResult = NoResult

NextTurns ==
    \/ \E event \in TurnEventInputs(session, now) :
          Len(session.events) < 2 * MaxTurns /\ AddEvent(event, now)
    \/ StartRequest

SpecTurns == InitTurns /\ [][NextTurns]_vars

\* ------------------------------------------------------------------------
\* Logs whose events carry any timestamps, seen through the sliding window
\* ------------------------------------------------------------------------

MaxWindowLog == 4

\* the timestamps a caller puts on its events: equal, rising or falling
Stamps == {0, 1, 2}

StampedEventInputs(s) ==
    LET id == Len(s.events) + 1
    IN UNION {{UserMessageEvent(id, ts, "hi"),
               AgentMessageEvent(id, ts, "ok", <<>>),
               CompactionEvent(id, ts, "sum", <<>>)} : ts \in Stamps}

SlidingWindowConfigs == {<<>>, [turns |-> 1], [turns |-> 2]}

\* slidingWindowRequestProcessor(session, new WorkingContext(), config)
SlidingWindowCall(config) ==
    /\ wctx' = SlidingWindowRequestProcessor(
                    session,
                    NewWorkingContext(session.metadata.sessionId, now),
                    config)
    /\ lastResult' = [op |-> "slidingWindowRequestProcessor",
                      config |-> config]
    /\ UNCHANGED <<session, now, pipeline, reqRun, respRun,
                   responsesRun, samples, restored>>

NextWindow ==
    \/ \E event \in StampedEventInputs(session) :
          Len(session.events) < MaxWindowLog /\ AddEvent(event, now)
    \/ \E config \in SlidingWindowConfigs : SlidingWindowCall(config)

SpecWindow == Init /\ [][NextWindow]_vars

\* ------------------------------------------------------------------------
\* Logs projected by the contents processor under window and filter configs
\* ------------------------------------------------------------------------

ContentsConfigs ==
    {w @@ f @@ t :
        w \in {<<>>, [windowSize |-> 0], [windowSize |-> 1],
               [windowSize |-> 2], [windowSize |-> 3]},
        f \in {<<>>, [filterActions |-> {}],
               [filterActions |-> {USER_MESSAGE}],
               [filterActions |-> {AGENT_MESSAGE, TOOL_CALL}]},
        t \in {<<>>, [includeToolCalls |-> FALSE]}}

\* contentsRequestProcessor(session, new WorkingContext(), config)
ContentsCall(config) ==
    /\ wctx' = ContentsRequestProcessor(
                    session.events,
                    NewWorkingContext(session.metadata.sessionId, now),
                    config)
    /\ lastResult' = [op |-> "contentsRequestProcessor", config |-> config]
    /\ UNCHANGED <<session, now, pipeline, reqRun, respRun,
                   responsesRun, samples, restored>>

NextContents ==
    \/ \E event \in LogEventInputs(session, now) :
          Len(session.events) < MaxWindowLog /\ AddEvent(event, now)
    \/ \E config \in ContentsConfigs : ContentsCall(config)

SpecContents == Init /\ [][NextContents]_vars

\* ------------------------------------------------------------------------
\* Logs of all nine event types projected by the contents processor
\* ------------------------------------------------------------------------

AnyEventInputs(s, t) ==
    LET id == Len(s.events) + 1
    IN {UserMessageEvent(id, t, "hi"),
        AgentMessageEvent(id, t, "ok", [modelUsed |-> "m"]),
        ToolCallEvent(id, t, "search", <<<<"q", "tea">>>>, "call_1"),
        ToolResultEvent(id, t, "search", "call_1", [string |-> "found"], TRUE),
        ErrorEvent(id, t),
        ControlSignalEvent(id, t),
        CompactionEvent(id, t, "earlier talk", <<>>),
        AgentTransferEvent(id, t),
        SystemInstructionEvent(id, t, "Be brief.", TRUE)}

ProjectionConfigs ==
    {<<>>, [includeToolCalls |-> TRUE], [includeToolCalls |-> FALSE],
     [windowSize |-> 2, includeToolCalls |-> FALSE],
     [filterActions |-> {AGENT_MESSAGE}]}

NextProjection ==
    \/ \E event \in AnyEventInputs(session, now) :
          Len(session.events) < MaxWindowLog /\ AddEvent(event, now)
    \/ \E config \in ProjectionConfigs : ContentsCall(config)

SpecProjection == Init /\ [][NextProjection]_vars

\* ------------------------------------------------------------------------
\* Logs of static and dynamic instructions, the instructions processor
\* ------------------------------------------------------------------------

InstructionEventInputs(s, t) ==
    LET id == Len(s.events) + 1
    IN {UserMessageEvent(id, t, "hi"),
        SystemInstructionEvent(id, t, "Be brief.", TRUE),
        SystemInstructionEvent(id, t, "Be kind.", TRUE),
        SystemInstructionEvent(id, t, "Stay calm.", FALSE),
        SystemInstructionEvent(id, t, "Be brief.", FALSE)}

InstructionsConfigs ==
    {<<>>, [instructions |-> <<>>], [instructions |-> <<"Use English.">>],
     [instructions |-> <<"Be kind.", "Use English.">>]}

\* the contexts the processor is handed: a new one, and one a caller has
\* already written to
InstructionContexts(s, t) ==
    LET fresh == NewWorkingContext(s.metadata.sessionId, t)
    IN {fresh,
        AddContent(
            SetAgentIdentity(AddSystemInstruction(fresh, "Base."), Identity1),
            [role |-> "user", content |-> "hi"])}

\* instructionsRequestProcessor(session, context, config)
InstructionsCall(context, config) ==
    /\ wctx' = InstructionsRequestProcessor(session, context, config)
    /\ lastResult' = [op |-> "instructionsRequestProcessor",
                      config |-> config, input |-> context]
    /\ UNCHANGED <<session, now, pipeline, reqRun, respRun,
                   responsesRun, samples, restored>>

NextInstructions ==
    \/ \E event \in InstructionEventInputs(session, now) :
          Len(session.events) < MaxWindowLog /\ AddEvent(event, now)
    \/ \E context \in InstructionContexts(session, now),
          config \in InstructionsConfigs : InstructionsCall(context, config)

SpecInstructions == Init /\ [][NextInstructions]_vars

\* ------------------------------------------------------------------------
\* A pipeline whose request processors are inserted and removed
\* ------------------------------------------------------------------------

MaxPipelineLen == 4

\* the names entries are inserted and removed under
EditNames == {"basic", "audit", "contents"}

EditedPipelines ==
    {NewPipeline,
     AddResponseProcessor(
         AddRequestProcessor(
             AddRequestProcessor(NewPipeline, "basic", "basic", <<>>),
             "contents", "contents", [windowSize |-> 2]),
         "statistics", "statistics", <<>>)}

InitEdit ==
    /\ now = 0
    /\ session = NewSession(AgentId, 0, "k3x9q0z1a")
    /\ pipeline \in EditedPipelines
    /\ responsesRun = 0
    /\ samples = <<>>
    /\ restored = NoSession
    /\ reqRun = Idle
    /\ respRun = Idle
    /\ wctx = NewWorkingContext(session.metadata.sessionId, 0)
    /\ lastResult = NoResult

\* pipeline.insertRequestProcessor(index, name, processor, config)
InsertRequestProcessorCall(index, name, config) ==
    /\ pipeline' = InsertRequestProcessor(pipeline, index, name, name, config)
    /\ lastResult' = [op |-> "insertRequestProcessor", index |-> index,
                      name |-> name, before |-> pipeline]
    /\ UNCHANGED <<session, now, reqRun, respRun, wctx,
                   responsesRun, samples, restored>>

\* pipeline.removeRequestProcessor(name)
RemoveRequestProcessorCall(name) ==
    /\ pipeline' = RemoveRequestProcessor(pipeline, name)
    /\ lastResult' = [op |-> "removeRequestProcessor", name |-> name,
                      before |-> pipeline]
    /\ UNCHANGED <<session, now, reqRun, respRun, wctx,
                   responsesRun, samples, restored>>

NextEdit ==
    \/ \E index \in (-1)..(MaxPipelineLen + 1), name \in EditNames,
          config \in {<<>>, [windowSize |-> 1]} :
          /\ Len(pipeline.requestProcessors) < MaxPipelineLen
          /\ InsertRequestProcessorCall(index, name, config)
    \/ \E name \in EditNames \cup {"identity"} :
          RemoveRequestProcessorCall(name)

SpecEdit == InitEdit /\ [][NextEdit]_vars

\* ------------------------------------------------------------------------
\* Responses with latencies handed to the statistics processor
\* ------------------------------------------------------------------------

MaxSamples == 3

LatencyResponses ==
    {<<>>,
     [metadata |-> [responseTimeMs |-> 0]],
     [metadata |-> [responseTimeMs |-> 100]],
     [metadata |-> [responseTimeMs |-> 40, tokensUsed |-> 9]]}

\* statisticsResponseProcessor(session, response, context)
StatisticsCall(response) ==
    /\ Len(samples) < MaxSamples
    /\ session' = StatisticsResponseProcessor(session, response)
    /\ samples' = samples \o SampleOf(response)
    /\ lastResult' = [op |-> "statisticsResponseProcessor",
                      response |-> response]
    /\ UNCHANGED <<now, pipeline, reqRun, respRun, wctx,
                   responsesRun, restored>>

NextLatency ==
    \/ \E event \in TurnEventInputs(session, now) :
          Len(session.events) < MaxWindowLog /\ AddEvent(event, now)
    \/ \E response \in LatencyResponses : StatisticsCall(response)

SpecLatency == Init /\ [][NextLatency]_vars

\* ------------------------------------------------------------------------
\* Logs that reach the compaction trigger and are compacted
\* ------------------------------------------------------------------------

TriggerEventInputs(s, t) ==
    LET id == Len(s.events) + 1
    IN {UserMessageEvent(id, t, "hi"),
        AgentMessageEvent(id, t, "ok", <<>>),
        CompactionEvent(id, t, "earlier talk", IdsOf(s.events))}

TriggerConfigUpdates ==
    {[enabled |-> Val(FALSE)],
     [enabled |-> Val(TRUE), triggerThreshold |-> Val(2)],
     [triggerThreshold |-> Val(3)]}

NextTrigger ==
    \/ \E event \in TriggerEventInputs(session, now) :
          Len(session.events) < MaxLogLen /\ AddEvent(event, now)
    \/ \E updates \in TriggerConfigUpdates : UpdateCompactionConfig(updates)
    \/ NeedsCompaction

SpecTrigger == Init /\ [][NextTrigger]_vars

\* ------------------------------------------------------------------------
\* Properties of the Session
\* ------------------------------------------------------------------------

\* how many logged events have action a
CountOf(events, a) ==
    Cardinality({i \in DOMAIN events : events[i].action = a})

\* C1: after any sequence of addEvent calls, totalEvents is the length of
\* the log and the five per-type counters are the numbers of logged events
\* of their type.
C1_StatisticsCountTheLog ==
    LET st == session.statistics
        ev == session.events
    IN /\ st.totalEvents = Len(ev)
       /\ st.totalUserMessages = CountOf(ev, USER_MESSAGE)
       /\ st.totalAgentMessages = CountOf(ev, AGENT_MESSAGE)
       /\ st.totalToolCalls = CountOf(ev, TOOL_CALL)
       /\ st.totalErrors = CountOf(ev, ERROR)
       /\ st.totalCompactions = CountOf(ev, COMPACTION)

\* A tool result has just been appended to a log that holds a tool call.
C1_Witness ==
    /\ lastResult.op = "addEvent"
    /\ lastResult.event.action = TOOL_RESULT
    /\ session.statistics.totalToolCalls = 1
    /\ session.statistics.totalEvents = 2

\* C3: needsCompaction() is true exactly when compaction is enabled and the
\* number of logged events that are not compaction events has reached the
\* trigger threshold; one more compaction event in the log does not change
\* the answer.
C3_NeedsCompactionCountsNonCompaction ==
    lastResult.op = "needsCompaction" =>
        LET cfg == session.compactionConfig
            pending == Len(session.events) - CountOf(session.events, COMPACTION)
            marker == CompactionEvent(0, now, "s", IdsOf(session.events))
        IN /\ lastResult.value =
                (/\ cfg.enabled = Val(TRUE)
                 /\ cfg.triggerThreshold # Undefined
                 /\ pending >= cfg.triggerThreshold.value)
           /\ SessionNeedsCompaction(SessionAddEvent(session, marker, now))
                = lastResult.value

\* needsCompaction() has answered false on a log whose length has reached
\* the threshold: its compaction events were not counted.
C3_Witness ==
    /\ lastResult.op = "needsCompaction"
    /\ lastResult.value = FALSE
    /\ session.compactionConfig.enabled = Val(TRUE)
    /\ session.compactionConfig.triggerThreshold # Undefined
    /\ Len(session.events) >= session.compactionConfig.triggerThreshold.value
    /\ session.statistics.totalCompactions > 0

\* C4: Session.deserialize(s.serialize()) has the same metadata, events,
\* statistics and compaction configuration as s.
C4_RoundTripIsIdentical ==
    lastResult.op = "deserialize" =>
        /\ lastResult.value.metadata = session.metadata
        /\ lastResult.value.events = session.events
        /\ lastResult.value.statistics = session.statistics
        /\ lastResult.value.compactionConfig = session.compactionConfig


\* ------------------------------------------------------------------------
\* Properties of the log under every operation, and of pipeline runs
\* ------------------------------------------------------------------------

IsPrefix(a, b) == Len(a) <= Len(b) /\ SubSeq(b, 1, Len(a)) = a

\* C2: the log is append-only: across every step (every Session operation,
\* every step of a request or response pipeline run) the events logged
\* before the step are a prefix of the events logged after it, so that
\* every earlier log is a prefix of every later one; appending a compaction
\* event removes or changes none of the events it references.
C2_LogIsAppendOnly ==
    [][IsPrefix(session.events, session.events')]_vars

\* A request pipeline has run over a log holding a compaction event, and
\* the events that event references are still in the log, unchanged.
C2_Witness ==
    /\ lastResult.op = "executeRequestPipeline"
    /\ \E i \in DOMAIN session.events :
          /\ session.events[i].action = COMPACTION
          /\ session.events[i].compactedEventIds # <<>>
          /\ \A k \in DOMAIN session.events[i].compactedEventIds :
                /\ k < i
                /\ session.events[k].id = session.events[i].compactedEventIds[k]
                /\ session.events[k].action # COMPACTION

\* the positions of the entries whose enabled flag is not false
EnabledEntries(entries) ==
    {i \in DOMAIN entries :
        ~("enabled" \in DOMAIN entries[i] /\ entries[i].enabled = FALSE)}

\* trace names each enabled entry once, in list order
InvokedOnceInOrder(trace, entries) ==
    /\ {trace[k].index : k \in DOMAIN trace} = EnabledEntries(entries)
    /\ \A k \in 1 .. Len(trace) - 1 : trace[k].index < trace[k + 1].index

\* each stage but the first was handed what the stage before it returned
ThreadedThrough(trace) ==
    \A k \in 1 .. Len(trace) - 1 :
        /\ "output" \in DOMAIN trace[k]
        /\ trace[k + 1].input = trace[k].output

\* C9: a finished executeRequestPipeline call has invoked exactly the
\* request processors whose enabled flag is not false, each once and in
\* list order; the first was given a fresh Working Context carrying the
\* session's id, each later one the context the stage before it returned,
\* and the call returned what the last stage returned.  A finished
\* executeResponsePipeline call has done the same over the response
\* processors, threading the Session.
C9_PipelineRunsEnabledStagesInOrder ==
    /\ lastResult.op = "executeRequestPipeline" =>
        LET trace == lastResult.trace
            fresh == NewWorkingContext(session.metadata.sessionId, now)
        IN /\ lastResult.outcome = "resolved"
           /\ InvokedOnceInOrder(trace, pipeline.requestProcessors)
           /\ ThreadedThrough(trace)
           /\ IF trace = <<>>
              THEN lastResult.value = fresh
              ELSE /\ trace[1].input = fresh
                   /\ "output" \in DOMAIN trace[Len(trace)]
                   /\ lastResult.value = trace[Len(trace)].output
    /\ lastResult.op = "executeResponsePipeline" =>
        LET trace == lastResult.trace
        IN /\ lastResult.outcome = "resolved"
           /\ InvokedOnceInOrder(trace, pipeline.responseProcessors)
           /\ ThreadedThrough(trace)
           /\ IF trace = <<>>
              THEN lastResult.value = session.statistics
              ELSE /\ "output" \in DOMAIN trace[Len(trace)]
                   /\ lastResult.value = trace[Len(trace)].output

\* A request pipeline with a switched-off entry among its five has run its
\* four other stages over a log that is not empty.
C9_Witness ==
    /\ lastResult.op = "executeRequestPipeline"
    /\ Len(pipeline.requestProcessors) = 5
    /\ Len(lastResult.trace) = 4
    /\ session.events # <<>>

\* the stages of a run that were invoked and have not returned a value
Unsettled(trace) == {k \in DOMAIN trace : "output" \notin DOMAIN trace[k]}

\* C10: within one pipeline call at most one stage is in progress, and it
\* is the one invoked last: while the call awaits, every stage invoked
\* before the awaited one has settled, and when the call is over every
\* stage has; the stage after an asynchronous one was handed the value
\* that one's promise settled to.
C10_StagesNeverOverlap ==
    /\ reqRun.pc = "awaiting" =>
          /\ Unsettled(reqRun.trace) = {Len(reqRun.trace)}
          /\ reqRun.trace[Len(reqRun.trace)].index = reqRun.i
    /\ respRun.pc = "awaiting" =>
          /\ Unsettled(respRun.trace) = {Len(respRun.trace)}
          /\ respRun.trace[Len(respRun.trace)].index = respRun.i
    /\ lastResult.op = "executeRequestPipeline" =>
          /\ Unsettled(lastResult.trace) = {}
          /\ \A k \in 1 .. Len(lastResult.trace) - 1 :
                pipeline.requestProcessors[lastResult.trace[k].index].processor
                        = "memory-search" =>
                    lastResult.trace[k + 1].input =
                        [lastResult.trace[k].input EXCEPT
                            !.memoryResults = @ \o MemorySearchResults]
    /\ lastResult.op = "executeResponsePipeline" =>
          /\ Unsettled(lastResult.trace) = {}
          /\ \A k \in 1 .. Len(lastResult.trace) - 1 :
                pipeline.responseProcessors[lastResult.trace[k].index].processor
                        = "audit" =>
                    lastResult.trace[k + 1].input = lastResult.trace[k].output

\* A request pipeline call awaits its second asynchronous stage, the first
\* one settled, while a response pipeline call has run to its end through
\* two asynchronous stages.
C10_Witness ==
    /\ reqRun.pc = "awaiting"
    /\ reqRun.i = 5
    /\ Len(reqRun.trace) = 4
    /\ lastResult.op = "executeResponsePipeline"
    /\ Len(lastResult.trace) = 3


\* ------------------------------------------------------------------------
\* Properties of conversation turns
\* ------------------------------------------------------------------------

\* the positions in events of the user messages
UserPositions(events) ==
    {p \in DOMAIN events : events[p].action = USER_MESSAGE}

\* the position of the i-th user message
UserPosition(events, i) ==
    CHOOSE p \in UserPositions(events) :
        Cardinality({q \in UserPositions(events) : q <= p}) = i

\* the positions after the i-th user message and before the next one
SpanOf(events, i) ==
    LET from == UserPosition(events, i)
        to == IF i < Cardinality(UserPositions(events))
              THEN UserPosition(events, i + 1) ELSE Len(events) + 1
    IN (from + 1) .. (to - 1)

\* the events at the positions of span that satisfy the test, in log order
RECURSIVE ToolsIn(_, _)
ToolsIn(events, span) ==
    IF span = {} THEN <<>>
    ELSE LET p == CHOOSE q \in span : \A r \in span : q <= r
             rest == ToolsIn(events, span \ {p})
         IN IF events[p].action \in {TOOL_CALL, TOOL_RESULT}
            THEN <<events[p]>> \o rest ELSE rest

\* C5: getConversationTurns() returns one turn per user message, in log
\* order; turn i holds the i-th user message, as agent the last agent
\* message between it and the next user message (no agent if there is
\* none) and as tools the tool calls and tool results of that span in log
\* order; events before the first user message are in no turn.
C5_TurnsFollowUserMessages ==
    lastResult.op = "getConversationTurns" =>
        LET events == session.events
            turns == lastResult.value
        IN /\ Len(turns) = Cardinality(UserPositions(events))
           /\ \A i \in DOMAIN turns :
                LET span == SpanOf(events, i)
                    agents == {p \in span : events[p].action = AGENT_MESSAGE}
                IN /\ turns[i].user = events[UserPosition(events, i)]
                   /\ IF agents = {}
                      THEN "agent" \notin DOMAIN turns[i]
                      ELSE /\ "agent" \in DOMAIN turns[i]
                           /\ \E p \in agents :
                                /\ \A q \in agents : q <= p
                                /\ turns[i].agent = events[p]
                   /\ turns[i].tools = ToolsIn(events, span)

\* The turns of the log user, agent, tool call, tool result, user have
\* been asked for.
C5_Witness ==
    /\ lastResult.op = "getConversationTurns"
    /\ Len(session.events) = 5
    /\ [p \in 1 .. 5 |-> session.events[p].action] =
          <<USER_MESSAGE, AGENT_MESSAGE, TOOL_CALL, TOOL_RESULT, USER_MESSAGE>>
    /\ Len(lastResult.value) = 2

\* ------------------------------------------------------------------------
\* Properties of the Working Context
\* ------------------------------------------------------------------------

\* C6: truncateToFit is idempotent: after truncateToFit(config), a second
\* truncateToFit(config) leaves the same contents, in the same order, and
\* the same metadata.windowSize.
C6_TruncateToFitIsIdempotent ==
    lastResult.op = "truncateToFit" =>
        LET again == TruncateToFit(wctx, lastResult.config)
        IN /\ again.contents = wctx.contents
           /\ again.metadata.windowSize = wctx.metadata.windowSize

\* truncateToFit has cut the contents down to a suffix that is not empty,
\* and the context is still over the limit, so that a second call runs the
\* loop again.
C6_Witness ==
    /\ lastResult.op = "truncateToFit"
    /\ wctx.contents # <<>>
    /\ wctx.metadata.windowSize = Len(wctx.contents)
    /\ EstimateTokenCount(wctx) > lastResult.config.availableForHistory

\* C7: after truncateToFit(config), and after tokenLimitRequestProcessor
\* with a config, the context fits the limit: its estimated token count is
\* at most config.availableForHistory.
C7_TruncatedContextFits ==
    (/\ lastResult.op \in {"truncateToFit", "tokenLimitRequestProcessor"}
     /\ lastResult.config # <<>>) =>
        /\ EstimateTokenCount(wctx) <= lastResult.config.availableForHistory
        /\ FitsWithinLimit(wctx, lastResult.config)

RECURSIVE SumOfLengths(_)
SumOfLengths(strs) ==
    IF strs = <<>> THEN 0 ELSE Len(Head(strs)) + SumOfLengths(Tail(strs))

\* the length of strs joined by one-character separators
JoinedLength(strs) ==
    SumOfLengths(strs) + (IF Len(strs) > 1 THEN Len(strs) - 1 ELSE 0)

\* the character count C of a context
TotalChars(c) ==
    JoinedLength(c.systemInstructions)
    + (IF "agentIdentity" \in DOMAIN c
       THEN Len(JSONAgentIdentity(c.agentIdentity)) ELSE 0)
    + SumOfLengths([k \in DOMAIN c.contents |-> c.contents[k].content])
    + (IF c.memoryResults # <<>> THEN JoinedLength(c.memoryResults) ELSE 0)
    + (IF c.artifactReferences # <<>>
       THEN Len(JSONArtifactReferences(c.artifactReferences)) ELSE 0)

\* C8: estimateTokenCount() is the ceiling of C / 4, the least n with
\* 4n >= C, for C the total character count of the context (10 for a
\* context holding one 40-character system instruction and nothing else);
\* fitsWithinLimit(config) is true exactly when that number is at most
\* config.availableForHistory.
C8_EstimateIsCeilingOfQuarter ==
    /\ lastResult.op = "estimateTokenCount" =>
          /\ 4 * lastResult.value >= TotalChars(wctx)
          /\ 4 * (lastResult.value - 1) < TotalChars(wctx)
          /\ TotalChars(wctx) = 40 => lastResult.value = 10
    /\ lastResult.op = "fitsWithinLimit" =>
          lastResult.value =
              (\E n \in 0 .. lastResult.config.availableForHistory :
                  /\ 4 * n >= TotalChars(wctx)
                  /\ 4 * (n - 1) < TotalChars(wctx))

\* The estimate of a context holding one 40-character system instruction
\* and nothing else has been taken, and is 10.
C8_Witness ==
    /\ lastResult.op = "estimateTokenCount"
    /\ Len(wctx.systemInstructions) = 1
    /\ Len(wctx.systemInstructions[1]) = 40
    /\ "agentIdentity" \notin DOMAIN wctx
    /\ wctx.contents = <<>>
    /\ wctx.memoryResults = <<>>
    /\ wctx.artifactReferences = <<>>
    /\ lastResult.value = 10


\* ------------------------------------------------------------------------
\* Properties of pipelines with a failing stage
\* ------------------------------------------------------------------------

\* the positions of the enabled entries whose processor throws or rejects
FailingEntries(entries) ==
    {i \in EnabledEntries(entries) :
        entries[i].processor \in {"faulty", "faulty-async"}}

\* a finished call failed at the first failing stage with that stage's
\* error, invoked no stage after it and returned nothing
FailedAtFirstFailure(result, entries) ==
    IF FailingEntries(entries) = {} THEN result.outcome = "resolved"
    ELSE LET k == CHOOSE i \in FailingEntries(entries) :
                    \A j \in FailingEntries(entries) : i <= j
         IN /\ result.outcome = "rejected"
            /\ "value" \notin DOMAIN result
            /\ result.error = [error |-> "Error", thrownBy |-> entries[k].name]
            /\ result.trace # <<>>
            /\ \A j \in DOMAIN result.trace : result.trace[j].index <= k
            /\ result.trace[Len(result.trace)].index = k

\* a call in progress has invoked no stage after a failing one
NothingAfterFailure(run, entries) ==
    run.pc = "awaiting" =>
        \A j \in DOMAIN run.trace :
            \A k \in FailingEntries(entries) : run.trace[j].index <= k

\* C11: when stage k of a request or response pipeline throws or rejects,
\* no stage after k is invoked, the call fails with that stage's error and
\* returns no context or session.
C11_FailurePropagates ==
    /\ NothingAfterFailure(reqRun, pipeline.requestProcessors)
    /\ NothingAfterFailure(respRun, pipeline.responseProcessors)
    /\ lastResult.op = "executeRequestPipeline" =>
          FailedAtFirstFailure(lastResult, pipeline.requestProcessors)
    /\ lastResult.op = "executeResponsePipeline" =>
          FailedAtFirstFailure(lastResult, pipeline.responseProcessors)

\* A request pipeline call has failed at its third stage, which rejected
\* after the stage before it had resolved.
C11_Witness ==
    /\ lastResult.op = "executeRequestPipeline"
    /\ lastResult.outcome = "rejected"
    /\ Len(lastResult.trace) = 3
    /\ Len(pipeline.requestProcessors) = 4
    /\ lastResult.error.thrownBy = "broken"

\* the last stage of trace that returned
LastReturned(trace) ==
    CHOOSE k \in DOMAIN trace :
        /\ "output" \in DOMAIN trace[k]
        /\ \A j \in DOMAIN trace : "output" \in DOMAIN trace[j] => j <= k

\* C12: the response pipeline is not transactional: in the step in which
\* a response pipeline call fails, the Session keeps the average response
\* time that the stages before the failing one left in it.
C12_NoRollback ==
    [][(/\ lastResult' # lastResult
        /\ lastResult'.op = "executeResponsePipeline"
        /\ lastResult'.outcome = "rejected"
        /\ \E k \in DOMAIN lastResult'.trace :
              "output" \in DOMAIN lastResult'.trace[k])
       => session'.statistics.averageResponseTimeMs =
            lastResult'.trace[LastReturned(lastResult'.trace)]
                .output.averageResponseTimeMs]_vars

\* A response pipeline call has failed after its statistics stage changed
\* the average response time, and the Session holds the changed value.
C12_Witness ==
    /\ lastResult.op = "executeResponsePipeline"
    /\ lastResult.outcome = "rejected"
    /\ lastResult.trace[1].name = "statistics"
    /\ "output" \in DOMAIN lastResult.trace[1]
    /\ lastResult.trace[1].output.averageResponseTimeMs
          # lastResult.trace[1].input.averageResponseTimeMs
    /\ session.statistics.averageResponseTimeMs
          = lastResult.trace[1].output.averageResponseTimeMs


\* ------------------------------------------------------------------------
\* Properties of the default factory
\* ------------------------------------------------------------------------

\* C13: a request pipeline call on a pipeline built by createDefaultPipeline
\* leaves the Session as it was: events, statistics, metadata (updatedAt
\* too) and compaction config.
C13_RequestSideReadsOnly ==
    [][lastResult'.op = "executeRequestPipeline" =>
          /\ session'.events = session.events
          /\ session'.statistics = session.statistics
          /\ session'.metadata = session.metadata
          /\ session'.compactionConfig = session.compactionConfig]_vars

\* A default pipeline of six stages has projected a log that is not empty.
C13_Witness ==
    /\ lastResult.op = "executeRequestPipeline"
    /\ Len(pipeline.requestProcessors) = 6
    /\ session.events # <<>>
    /\ lastResult.value.metadata.totalEvents = Len(session.events)

\* the names the factory is to register for options, in order
ExpectedRequestNames(options) ==
    <<"basic", "instructions">>
    \o (IF "agentIdentity" \in DOMAIN options THEN <<"identity">> ELSE <<>>)
    \o (IF "useCompactionFilter" \in DOMAIN options
            /\ options.useCompactionFilter = FALSE
        THEN IF "useSlidingWindow" \in DOMAIN options
                /\ options.useSlidingWindow = TRUE
             THEN <<"sliding-window">> ELSE <<"contents">>
        ELSE <<"compaction-filter">>)
    \o (IF "enableCaching" \in DOMAIN options /\ options.enableCaching = TRUE
        THEN <<"context-cache">> ELSE <<>>)
    \o (IF "contextWindowConfig" \in DOMAIN options
        THEN <<"token-limit">> ELSE <<>>)

\* C15: createDefaultPipeline registers basic, instructions, identity (if
\* an identity is given), one of compaction-filter / sliding-window /
\* contents (compaction-filter unless useCompactionFilter is false),
\* context-cache (if enableCaching), token-limit (if a window config is
\* given), in this order, each entry holding the processor of its name and
\* no enabled flag; and one response processor, statistics.
C15_FactoryOrder ==
    lastResult.op = "createDefaultPipeline" =>
        LET request == pipeline.requestProcessors
            response == pipeline.responseProcessors
        IN /\ [i \in DOMAIN request |-> request[i].name]
                = ExpectedRequestNames(lastResult.options)
           /\ \A i \in DOMAIN request :
                /\ request[i].processor = request[i].name
                /\ "enabled" \notin DOMAIN request[i]
           /\ Len(response) = 1
           /\ response[1].name = "statistics"
           /\ response[1].processor = "statistics"

\* The factory has been called with useCompactionFilter false and
\* useSlidingWindow true, an identity, caching and a window config.
C15_Witness ==
    /\ lastResult.op = "createDefaultPipeline"
    /\ [i \in DOMAIN pipeline.requestProcessors |->
            pipeline.requestProcessors[i].name]
          = <<"basic", "instructions", "identity", "sliding-window",
              "context-cache", "token-limit">>


\* ------------------------------------------------------------------------
\* Properties of the default pipeline on user/agent conversations
\* ------------------------------------------------------------------------

\* the role contentsRequestProcessor gives a message event
RoleOf(event) == IF event.action = USER_MESSAGE THEN "user" ELSE "assistant"

\* C16: on a log of user and agent messages only, a default pipeline with
\* the compaction filter left at its default and no window config yields
\* one content per event, in log order, with role user for a user message
\* and assistant for an agent message: 2*T contents for T turns.
C16_OneContentPerMessage ==
    lastResult.op = "executeRequestPipeline" =>
        LET contents == lastResult.value.contents
            events == session.events
        IN /\ Len(contents) = Len(events)
           /\ \A i \in DOMAIN events :
                /\ contents[i].role = RoleOf(events[i])
                /\ contents[i].content = events[i].content
                /\ contents[i].metadata.eventId = events[i].id

\* Three user/agent turns have been projected into six contents.
C16_Witness ==
    /\ lastResult.op = "executeRequestPipeline"
    /\ Len(session.events) = 6
    /\ \A i \in 1..6 :
          session.events[i].action
              = (IF i % 2 = 1 THEN USER_MESSAGE ELSE AGENT_MESSAGE)
    /\ Len(lastResult.value.contents) = 6
    /\ [i \in 1..6 |-> lastResult.value.contents[i].role]
          = <<"user", "assistant", "user", "assistant", "user", "assistant">>


\* ------------------------------------------------------------------------
\* Properties of the compaction filter
\* ------------------------------------------------------------------------

\* the ids some compaction event of the log names
ReferencedIds(events) ==
    {id \in 1..Len(events) :
        \E i \in DOMAIN events :
            /\ events[i].action = COMPACTION
            /\ \E k \in DOMAIN events[i].compactedEventIds :
                  events[i].compactedEventIds[k] = id}

\* what a projected summary puts before the summary text
SummaryPrefixes == {"", "[Conversation Summary]: "}

\* C14: with keepCompactionSummaries true the compaction filter projects
\* no content of a non-compaction event that some compaction event names,
\* projects every other user, agent, tool-call and tool-result event, and
\* projects for every compaction event a system content whose text
\* contains its summary.
C14_FilterHidesCompactedKeepsSummaries ==
    lastResult.op = "executeRequestPipeline" =>
        LET contents == lastResult.value.contents
            events == session.events
            referenced == ReferencedIds(events)
            Projected(e) ==
                \E j \in DOMAIN contents : contents[j].metadata.eventId = e.id
        IN \A i \in DOMAIN events :
             LET e == events[i]
             IN /\ (e.action # COMPACTION /\ e.id \in referenced)
                    => ~Projected(e)
                /\ (e.action \in {USER_MESSAGE, AGENT_MESSAGE, TOOL_CALL,
                                  TOOL_RESULT}
                        /\ e.id \notin referenced)
                    => Projected(e)
                /\ e.action = COMPACTION
                    => \E j \in DOMAIN contents :
                          /\ contents[j].metadata.eventId = e.id
                          /\ contents[j].role = "system"
                          /\ \E prefix \in SummaryPrefixes :
                                contents[j].content = prefix \o e.summary

\* A log e1, e2, e3 and a compaction event naming e1 and e3 has been
\* projected into e2 and the summary.
C14_Witness ==
    /\ lastResult.op = "executeRequestPipeline"
    /\ Len(session.events) = 4
    /\ session.events[4].action = COMPACTION
    /\ session.events[4].compactedEventIds = <<1, 3>>
    /\ \A i \in 1..3 : session.events[i].action # COMPACTION
    /\ [j \in DOMAIN lastResult.value.contents |->
            lastResult.value.contents[j].metadata.eventId] = <<2, 4>>


\* ------------------------------------------------------------------------
\* Properties of Session.deserialize on inputs of any shape
\* ------------------------------------------------------------------------

\* an object of exactly the four fields, three objects and an array
HasSerializedShape(data) ==
    /\ data.json = "object"
    /\ DOMAIN data.members = SerializedFields
    /\ data.members.metadata.json = "object"
    /\ data.members.events.json = "array"
    /\ data.members.statistics.json = "object"
    /\ data.members.compactionConfig.json = "object"

\* C17: Session.deserialize throws on every input that is not an object of
\* exactly the shape {metadata, events, statistics, compactionConfig}: an
\* input that lacks a field, or holds a field of the wrong type, yields no
\* Session.
C17_MalformedInputIsRejected ==
    (lastResult.op = "deserialize" /\ ~HasSerializedShape(lastResult.data))
        => lastResult.threw

\* deserialize has returned a Session for an input without statistics,
\* with the statistics of a new Session.
C17_SilentlyCompleted ==
    /\ lastResult.op = "deserialize"
    /\ lastResult.data.json = "object"
    /\ "statistics" \notin DOMAIN lastResult.data.members
    /\ session.statistics.totalEvents > 0
    /\ ~lastResult.threw
    /\ lastResult.value.statistics.totalEvents = 0


\* ------------------------------------------------------------------------
\* Properties of event ids
\* ------------------------------------------------------------------------

\* C18: after any sequence of addEvent calls the events of the log have
\* pairwise distinct ids.
C18_EventIdsAreDistinct ==
    \A i, j \in DOMAIN session.events :
        i # j => session.events[i].id # session.events[j].id

\* The log holds two events of one id.
C18_DuplicateIds ==
    /\ Len(session.events) = 2
    /\ session.events[1].id = session.events[2].id
    /\ session.statistics.totalEvents = 2


\* ------------------------------------------------------------------------
\* Properties of toModelFormat
\* ------------------------------------------------------------------------

\* the format a call asks for, "" when it names none
FormatAsked(args) ==
    IF "options" \in DOMAIN args /\ "format" \in DOMAIN args.options
    THEN args.options.format ELSE ""

\* C19: toModelFormat with a model type other than workers-ai throws,
\* returning nothing, and leaves the Working Context as it was; with the
\* supported model type (given or by default) and a format other than
\* responses (chat_completions, native or none) it returns an object of
\* the one key messages: the system message, then one message per content.
C19_UnsupportedThrowsOthersChat ==
    [][lastResult'.op = "toModelFormat" =>
          LET result == lastResult'
              args == result.args
          IN IF "modelType" \in DOMAIN args /\ args.modelType # "workers-ai"
             THEN /\ result.threw
                  /\ "value" \notin DOMAIN result
                  /\ wctx' = wctx
             ELSE FormatAsked(args) # "responses" =>
                    /\ ~result.threw
                    /\ DOMAIN result.value = {"messages"}
                    /\ Len(result.value.messages) = 1 + Len(wctx.contents)
                    /\ result.value.messages[1].role = "system"]_vars

\* toModelFormat("openai") has thrown on a context that holds contents
\* and instructions.
C19_Witness ==
    /\ lastResult.op = "toModelFormat"
    /\ lastResult.args = [modelType |-> "openai"]
    /\ lastResult.threw
    /\ wctx.contents # <<>>
    /\ wctx.systemInstructions # <<>>


\* ------------------------------------------------------------------------
\* Properties of the response latency statistics
\* ------------------------------------------------------------------------

RECURSIVE SumOf(_)
SumOf(numbers) ==
    IF numbers = <<>> THEN 0 ELSE Head(numbers) + SumOf(Tail(numbers))

\* C20: once every response pipeline run has returned, if k >= 1 of the
\* responses carried metadata.responseTimeMs, averageResponseTimeMs is the
\* arithmetic mean of those k samples, whatever addEvent calls came in
\* between.
C20_AverageIsMeanOfSamples ==
    (respRun = Idle /\ samples # <<>>) =>
        session.statistics.averageResponseTimeMs
            = Frac(SumOf(samples), Len(samples))

\* One agent message is in the log, one response of 100 ms has been
\* processed, and the average is 50 ms.
C20_HalvedSample ==
    /\ respRun = Idle
    /\ samples = <<100>>
    /\ session.statistics.totalAgentMessages = 1
    /\ session.statistics.averageResponseTimeMs = Frac(50, 1)


\* C21: a response without metadata.responseTimeMs (no metadata, or a
\* metadata without it) makes the statistics processor neither throw nor
\* change the Session: events, statistics, metadata and compaction config
\* are what they were.
C21_NoLatencyIsNoOp ==
    [][(responsesRun' = responsesRun + 1 /\ samples' = samples) =>
          /\ session' = session
          /\ lastResult'.op = "executeResponsePipeline"
          /\ lastResult'.outcome = "resolved"
          /\ lastResult'.value = session.statistics]_vars

\* A response without responseTimeMs has been processed on a session that
\* holds an agent message.
C21_Witness ==
    /\ responsesRun = 1
    /\ samples = <<>>
    /\ lastResult.op = "executeResponsePipeline"
    /\ lastResult.outcome = "resolved"
    /\ session.statistics.totalAgentMessages > 0


\* ------------------------------------------------------------------------
\* Properties of the token total
\* ------------------------------------------------------------------------

\* the sum of tokensUsed over the agent messages of the log that have one
RECURSIVE AgentTokenSum(_)
AgentTokenSum(events) ==
    IF events = <<>> THEN 0
    ELSE LET e == events[Len(events)]
         IN AgentTokenSum(SubSeq(events, 1, Len(events) - 1))
              + (IF e.action = AGENT_MESSAGE /\ "tokensUsed" \in DOMAIN e
                 THEN e.tokensUsed ELSE 0)

\* C22: after any sequence of addEvent calls totalTokensUsed is the sum of
\* tokensUsed over the agent messages of the log, an agent message without
\* tokensUsed counting 0; an event of another type adds nothing.
C22_TokenTotalIsSumOverAgentMessages ==
    session.statistics.totalTokensUsed = AgentTokenSum(session.events)

\* Agent messages of 7 and 3 tokens, one without a count and a tool call
\* carrying a count of its own are in the log, and the total is 10.
C22_Witness ==
    /\ session.statistics.totalTokensUsed = 10
    /\ session.statistics.totalAgentMessages = 3
    /\ lastResult.op = "addEvent"
    /\ lastResult.event.action = TOOL_CALL


\* ------------------------------------------------------------------------
\* Properties of one addEvent call
\* ------------------------------------------------------------------------

PerTypeCounters ==
    {"totalUserMessages", "totalAgentMessages", "totalToolCalls",
     "totalErrors", "totalCompactions"}

\* the per-type counters whose value differs between two statistics
ChangedCounters(before, after) ==
    {c \in PerTypeCounters : after[c] # before[c]}

\* the counter that counts an action type, for the five types that have one
CounterCounting ==
    [a \in {USER_MESSAGE, AGENT_MESSAGE, TOOL_CALL, ERROR, COMPACTION} |->
        CASE a = USER_MESSAGE -> "totalUserMessages"
          [] a = AGENT_MESSAGE -> "totalAgentMessages"
          [] a = TOOL_CALL -> "totalToolCalls"
          [] a = ERROR -> "totalErrors"
          [] a = COMPACTION -> "totalCompactions"]

\* C23: for an event of each of the nine action types, one addEvent call
\* increments exactly one per-type counter by one, besides totalEvents,
\* leaves the other per-type counters as they were and appends the event as
\* the last element of the log.
C23_EveryTypeHasItsCounter ==
    [][lastResult'.op = "addEvent" =>
          /\ session'.events = Append(session.events, lastResult'.event)
          /\ session'.statistics.totalEvents
                = session.statistics.totalEvents + 1
          /\ \E c \in PerTypeCounters :
                /\ ChangedCounters(session.statistics, session'.statistics)
                      = {c}
                /\ session'.statistics[c] = session.statistics[c] + 1]_vars

\* C23 as amended: one addEvent call appends the event as the last element
\* of the log and increments totalEvents by one; for a user message, agent
\* message, tool call, error or compaction event it increments the counter
\* of that type by one and no other per-type counter; for a tool result,
\* control signal, agent transfer or system instruction it changes no
\* per-type counter.
C23_CountedTypesHaveTheirCounter ==
    [][lastResult'.op = "addEvent" =>
          LET action == lastResult'.event.action
              before == session.statistics
              after == session'.statistics
          IN /\ session'.events = Append(session.events, lastResult'.event)
             /\ after.totalEvents = before.totalEvents + 1
             /\ IF action \in DOMAIN CounterCounting
                THEN /\ ChangedCounters(before, after)
                            = {CounterCounting[action]}
                     /\ after[CounterCounting[action]]
                            = before[CounterCounting[action]] + 1
                ELSE /\ action \in {TOOL_RESULT, CONTROL_SIGNAL,
                                    AGENT_TRANSFER, SYSTEM_INSTRUCTION}
                     /\ ChangedCounters(before, after) = {}]_vars

\* A tool call and then an agent transfer have been added: one tool call
\* is counted and the transfer is in no per-type counter.
C23_Witness ==
    /\ lastResult.op = "addEvent"
    /\ lastResult.event.action = AGENT_TRANSFER
    /\ Len(session.events) = 2
    /\ session.events[1].action = TOOL_CALL
    /\ session.statistics.totalEvents = 2
    /\ session.statistics.totalToolCalls = 1
    /\ session.statistics.totalErrors = 0


\* ------------------------------------------------------------------------
\* Properties of a Session and its deserialized copy
\* ------------------------------------------------------------------------

\* C24: a Session and Session.deserialize of its serialization, taken
\* through the same addEvent, updateCompactionConfig and response pipeline
\* calls, agree after every step on events, statistics, compaction config,
\* needsCompaction() and getConversationTurns().
C24_RestoredBehavesLikeOriginal ==
    restored # NoSession =>
        /\ restored.events = session.events
        /\ restored.statistics = session.statistics
        /\ restored.compactionConfig = session.compactionConfig
        /\ SessionNeedsCompaction(restored) = SessionNeedsCompaction(session)
        /\ SessionGetConversationTurns(restored)
              = SessionGetConversationTurns(session)

\* After an event added to both, the copy asks for compaction and the
\* original does not.
C24_CopyCompactsOriginalDoesNot ==
    /\ restored # NoSession
    /\ lastResult.op = "addEvent"
    /\ restored.events = session.events
    /\ SessionNeedsCompaction(restored)
    /\ ~SessionNeedsCompaction(session)


\* ------------------------------------------------------------------------
\* Properties of truncateToFit
\* ------------------------------------------------------------------------

\* the least m with 4m >= n
CeilingOfQuarter(n) == CHOOSE m \in 0..n : 4 * m >= n /\ 4 * (m - 1) < n

\* the summed cost of the last n contents
CostOfLast(contents, n) ==
    LET Cost(k) == CeilingOfQuarter(Len(contents[k].content))
        from == Len(contents) - n + 1
    IN SumOf([j \in 1..n |-> Cost(from + j - 1)])

\* the characters of the system instructions joined by newlines and of the
\* agent identity as JSON
SystemAndIdentityChars(c) ==
    JoinedLength(c.systemInstructions)
    + (IF "agentIdentity" \in DOMAIN c
       THEN Len(JSONAgentIdentity(c.agentIdentity)) ELSE 0)

\* C25: on a context over the budget, truncateToFit leaves the longest
\* suffix of the contents whose summed cost ceiling(length / 4) is at most
\* availableForHistory minus a quarter of the characters of system
\* instructions and identity (no content when not even the newest fits):
\* the items kept are the newest, in their order, the item before them does
\* not fit on top of them, and metadata.windowSize is their number.
C25_KeepsLongestFittingSuffix ==
    [][(/\ lastResult'.op = "truncateToFit"
        /\ EstimateTokenCount(wctx) > lastResult'.config.availableForHistory)
        =>
          LET old == wctx.contents
              new == wctx'.contents
              n == Len(new)
              budget4 == 4 * lastResult'.config.availableForHistory
                            - SystemAndIdentityChars(wctx)
          IN /\ n <= Len(old)
             /\ new = SubSeq(old, Len(old) - n + 1, Len(old))
             /\ n > 0 => 4 * CostOfLast(old, n) <= budget4
             /\ n < Len(old) => 4 * CostOfLast(old, n + 1) > budget4
             /\ wctx'.metadata.windowSize = n]_vars

\* truncateToFit has cut a context with an identity down to its newest
\* content, which fits the limit.
C25_Witness ==
    /\ lastResult.op = "truncateToFit"
    /\ "agentIdentity" \in DOMAIN wctx
    /\ Len(wctx.contents) = 1
    /\ wctx.metadata.windowSize = 1
    /\ EstimateTokenCount(wctx) <= lastResult.config.availableForHistory

\* the fields of a WorkingContext other than contents and metadata
OutsideContents(c) ==
    [k \in DOMAIN c \ {"contents", "metadata"} |-> c[k]]

\* C26: truncateToFit never changes systemInstructions, agentIdentity,
\* memoryResults or artifactReferences, and on a context whose estimate is
\* within availableForHistory it changes nothing at all: contents and
\* metadata, windowSize included, stay as they were.
C26_TruncateTouchesContentsOnly ==
    [][lastResult'.op = "truncateToFit"
        => /\ OutsideContents(wctx') = OutsideContents(wctx)
           /\ {"systemInstructions", "memoryResults", "artifactReferences"}
                 \subseteq DOMAIN OutsideContents(wctx)
           /\ EstimateTokenCount(wctx)
                 <= lastResult'.config.availableForHistory
              => wctx' = wctx]_vars

\* truncateToFit has returned a context that holds a system instruction,
\* memory results and contents within the limit, never truncated.
C26_Witness ==
    /\ lastResult.op = "truncateToFit"
    /\ Len(wctx.systemInstructions) > 0
    /\ Len(wctx.memoryResults) > 0
    /\ Len(wctx.contents) > 0
    /\ wctx.metadata.windowSize = 0
    /\ EstimateTokenCount(wctx) <= lastResult.config.availableForHistory

\* ------------------------------------------------------------------------
\* Properties of getLastNEvents
\* ------------------------------------------------------------------------

\* the smaller of two numbers
MinOf(a, b) == IF a <= b THEN a ELSE b

\* C27: for a log of length L and n >= 0, getLastNEvents(n) returns the
\* last min(n, L) events of the log in log order, the empty list for n = 0,
\* and leaves the session unchanged.
C27_LastNEventsAreTheLastMin ==
    [][lastResult'.op = "getLastNEvents"
        => LET L == Len(session.events)
               k == MinOf(lastResult'.n, L)
           IN /\ session' = session
              /\ Len(lastResult'.value) = k
              /\ \A j \in 1..k :
                    lastResult'.value[j] = session.events[L - k + j]]_vars

\* getLastNEvents(0) has returned all the events of a log that holds some.
C27_ZeroReturnsWholeLog ==
    /\ lastResult.op = "getLastNEvents"
    /\ lastResult.n = 0
    /\ Len(session.events) >= 2
    /\ lastResult.value = session.events

\* ------------------------------------------------------------------------
\* Properties of the sliding window
\* ------------------------------------------------------------------------

\* the positions of the user messages of a log, oldest first
UserMessagePositions(events) ==
    LET IsUser(i) == events[i].action = USER_MESSAGE
    IN SelectSeq([i \in 1..Len(events) |-> i], IsUser)

\* the number of turns a sliding window call asked for
TurnsAsked(config) ==
    IF "turns" \in DOMAIN config THEN config.turns ELSE 3

\* C28: whatever the timestamps of the events, the sliding window with
\* turns = N (3 when not given) projects a content of a non-compaction
\* event only if the event is the N-th most recent user message or comes
\* after it in the log, so at most N contents have the role user.
C28_WindowKeepsLastTurnsInLogOrder ==
    lastResult.op = "slidingWindowRequestProcessor" =>
        LET N == TurnsAsked(lastResult.config)
            users == UserMessagePositions(session.events)
            contents == wctx.contents
            userContents == {i \in DOMAIN contents : contents[i].role = "user"}
        IN /\ Cardinality(userContents) <= N
           /\ Len(users) >= N =>
                \A i \in DOMAIN contents :
                    session.events[contents[i].metadata.eventId].action
                            # COMPACTION
                        => contents[i].metadata.eventId
                              >= users[Len(users) - N + 1]

\* A sliding window of one turn has projected two user messages.
C28_TwoUsersInOneTurn ==
    /\ lastResult.op = "slidingWindowRequestProcessor"
    /\ lastResult.config = [turns |-> 1]
    /\ Len(wctx.contents) = 2
    /\ \A i \in DOMAIN wctx.contents : wctx.contents[i].role = "user"

\* C29: the sliding window keeps every compaction event: for every session,
\* one without user messages included, each compaction event of the log has
\* a system content "[Conversation Summary]: <summary>" in the output,
\* whatever its timestamp.
C29_WindowKeepsEverySummary ==
    lastResult.op = "slidingWindowRequestProcessor" =>
        \A j \in DOMAIN session.events :
            session.events[j].action = COMPACTION =>
                \E i \in DOMAIN wctx.contents :
                    /\ wctx.contents[i].role = "system"
                    /\ wctx.contents[i].content
                          = "[Conversation Summary]: "
                                \o session.events[j].summary
                    /\ wctx.contents[i].metadata.eventId
                          = session.events[j].id

\* The sliding window has projected nothing from a log that holds a
\* compaction event and no user message.
C29_SummaryLostWithoutUsers ==
    /\ lastResult.op = "slidingWindowRequestProcessor"
    /\ \E j \in DOMAIN session.events : session.events[j].action = COMPACTION
    /\ UserMessagePositions(session.events) = <<>>
    /\ wctx.contents = <<>>

\* ------------------------------------------------------------------------
\* Properties of the contents processor
\* ------------------------------------------------------------------------

\* C30: with windowSize = N > 0 the contents processor takes the last N raw
\* events first and filters afterwards: it adds at most N contents, none
\* from an event older than the last N even when some of the last N are
\* filtered out or skipped, and an event whose action is in filterActions
\* never produces a content.
C30_WindowBeforeFilter ==
    lastResult.op = "contentsRequestProcessor" =>
        LET config == lastResult.config
            L == Len(session.events)
            filtered == IF "filterActions" \in DOMAIN config
                        THEN config.filterActions ELSE {}
            EventOf(i) == session.events[wctx.contents[i].metadata.eventId]
        IN /\ \A i \in DOMAIN wctx.contents : EventOf(i).action \notin filtered
           /\ ("windowSize" \in DOMAIN config /\ config.windowSize > 0) =>
                /\ Len(wctx.contents) <= config.windowSize
                /\ \A i \in DOMAIN wctx.contents :
                      wctx.contents[i].metadata.eventId
                          > L - config.windowSize

\* A window of two over a log of three whose newest event is filtered out
\* has projected one content, and the oldest event, not filtered, none.
C30_Witness ==
    /\ lastResult.op = "contentsRequestProcessor"
    /\ "windowSize" \in DOMAIN lastResult.config
    /\ lastResult.config.windowSize = 2
    /\ "filterActions" \in DOMAIN lastResult.config
    /\ Len(session.events) = 3
    /\ session.events[3].action \in lastResult.config.filterActions
    /\ session.events[1].action = AGENT_MESSAGE
    /\ AGENT_MESSAGE \notin lastResult.config.filterActions
    /\ Len(wctx.contents) = 1
    /\ wctx.contents[1].metadata.eventId = 2

\* the role of the content an event of action a yields, "" for none
ContentRoleOf(a, includeToolCalls) ==
    CASE a = USER_MESSAGE -> "user"
      [] a = AGENT_MESSAGE -> "assistant"
      [] a = TOOL_CALL -> IF includeToolCalls THEN "assistant" ELSE ""
      [] a = TOOL_RESULT -> IF includeToolCalls THEN "tool" ELSE ""
      [] a = COMPACTION -> "system"
      [] OTHER -> ""

\* C31: the contents processor appends, in log order, one content per
\* considered user message (role user), agent message (assistant), tool
\* call (assistant) and tool result (tool, with name and tool_call_id) when
\* includeToolCalls holds, and compaction event (system); error, control
\* signal, agent transfer and system instruction events add nothing; then
\* metadata.windowSize is the number of contents of the context.
C31_OneContentPerProjectedEvent ==
    lastResult.op = "contentsRequestProcessor" =>
        LET config == lastResult.config
            events == session.events
            L == Len(events)
            includeToolCalls == IF "includeToolCalls" \in DOMAIN config
                                THEN config.includeToolCalls ELSE TRUE
            filtered == IF "filterActions" \in DOMAIN config
                        THEN config.filterActions ELSE {}
            first == IF "windowSize" \in DOMAIN config
                        /\ config.windowSize > 0 /\ config.windowSize < L
                     THEN L - config.windowSize + 1 ELSE 1
            Yields(i) ==
                /\ i >= first
                /\ events[i].action \notin filtered
                /\ ContentRoleOf(events[i].action, includeToolCalls) # ""
            projected == SelectSeq([i \in 1..L |-> i], Yields)
            contents == wctx.contents
        IN /\ Len(contents) = Len(projected)
           /\ \A k \in DOMAIN contents :
                 LET event == events[projected[k]]
                 IN /\ contents[k].metadata.eventId = event.id
                    /\ contents[k].role
                          = ContentRoleOf(event.action, includeToolCalls)
                    /\ event.action = TOOL_RESULT =>
                          /\ contents[k].name = event.toolName
                          /\ contents[k].tool_call_id = event.toolCallId
           /\ wctx.metadata.windowSize = Len(contents)

\* The processor, told to leave tool calls out, has projected a log of a
\* tool call, an error, a compaction event and a user message as a system
\* content and a user content.
C31_Witness ==
    /\ lastResult.op = "contentsRequestProcessor"
    /\ lastResult.config = [includeToolCalls |-> FALSE]
    /\ Len(session.events) = 4
    /\ session.events[1].action = TOOL_CALL
    /\ session.events[2].action = ERROR
    /\ Len(wctx.contents) = 2
    /\ wctx.contents[1].role = "system"
    /\ wctx.contents[2].role = "user"
    /\ wctx.metadata.windowSize = 2

\* ------------------------------------------------------------------------
\* Properties of the instructions processor
\* ------------------------------------------------------------------------

\* C32: the instructions processor appends to the system instructions of
\* the context first the configured strings in their order, then the text
\* of every system instruction event with isStatic true in log order; an
\* event with isStatic false gives nothing, and nothing else of the context
\* changes.
C32_ConfiguredThenStaticInstructions ==
    lastResult.op = "instructionsRequestProcessor" =>
        LET before == lastResult.input
            configured == IF "instructions" \in DOMAIN lastResult.config
                          THEN lastResult.config.instructions ELSE <<>>
            events == session.events
            IsStatic(i) == /\ events[i].action = SYSTEM_INSTRUCTION
                           /\ events[i].isStatic = TRUE
            static == SelectSeq([i \in 1..Len(events) |-> i], IsStatic)
            old == Len(before.systemInstructions)
            added == wctx.systemInstructions
        IN /\ Len(added) = old + Len(configured) + Len(static)
           /\ SubSeq(added, 1, old) = before.systemInstructions
           /\ \A k \in DOMAIN configured : added[old + k] = configured[k]
           /\ \A k \in DOMAIN static :
                 added[old + Len(configured) + k]
                    = events[static[k]].instruction
           /\ [wctx EXCEPT !.systemInstructions = before.systemInstructions]
                 = before

\* The processor, configured with two strings, has run over a log that
\* holds a dynamic instruction between two static ones, on a context that
\* already held an instruction, an identity and a content.
C32_Witness ==
    /\ lastResult.op = "instructionsRequestProcessor"
    /\ Len(lastResult.input.systemInstructions) = 1
    /\ "instructions" \in DOMAIN lastResult.config
    /\ Len(lastResult.config.instructions) = 2
    /\ Len(session.events) >= 3
    /\ session.events[1].action = SYSTEM_INSTRUCTION
    /\ session.events[1].isStatic
    /\ session.events[2].action = SYSTEM_INSTRUCTION
    /\ ~session.events[2].isStatic
    /\ session.events[3].action = SYSTEM_INSTRUCTION
    /\ session.events[3].isStatic
    /\ Len(wctx.systemInstructions) = 5
    /\ Len(wctx.contents) = 1

\* ------------------------------------------------------------------------
\* Properties of insertRequestProcessor and removeRequestProcessor
\* ------------------------------------------------------------------------

\* a sequence without its element at position k
WithoutPosition(seq, k) == SubSeq(seq, 1, k - 1) \o SubSeq(seq, k + 1, Len(seq))

\* C33: insertRequestProcessor(i, name, ...) with 0 <= i <= the number of
\* request processors puts the new entry at position i and keeps the
\* others in their order; removeRequestProcessor(name) takes out the
\* entries of that name, keeps the order of the rest and changes nothing
\* when no entry has the name; neither touches the response processors.
C33_InsertAndRemoveKeepOrder ==
    LET before == lastResult.before.requestProcessors
        after == pipeline.requestProcessors
    IN /\ lastResult.op = "insertRequestProcessor" =>
            /\ pipeline.responseProcessors
                  = lastResult.before.responseProcessors
            /\ (lastResult.index >= 0 /\ lastResult.index <= Len(before)) =>
                  /\ Len(after) = Len(before) + 1
                  /\ after[lastResult.index + 1].name = lastResult.name
                  /\ WithoutPosition(after, lastResult.index + 1) = before
       /\ lastResult.op = "removeRequestProcessor" =>
            LET IsOther(k) == before[k].name # lastResult.name
                others == SelectSeq([k \in 1..Len(before) |-> k], IsOther)
            IN /\ pipeline.responseProcessors
                     = lastResult.before.responseProcessors
               /\ Len(after) = Len(others)
               /\ \A k \in DOMAIN after : after[k] = before[others[k]]
               /\ Len(others) = Len(before) => pipeline = lastResult.before

\* An entry has been inserted at position 1 of three, between entries that
\* stay where they were, in a pipeline that holds a response processor.
C33_Witness ==
    /\ lastResult.op = "insertRequestProcessor"
    /\ lastResult.index = 1
    /\ Len(lastResult.before.requestProcessors) = 2
    /\ Len(pipeline.requestProcessors) = 3
    /\ pipeline.requestProcessors[2].name = "audit"
    /\ pipeline.requestProcessors[1].name = "basic"
    /\ pipeline.requestProcessors[3].name = "contents"
    /\ Len(pipeline.responseProcessors) = 1

\* ------------------------------------------------------------------------
\* Properties of the chat format
\* ------------------------------------------------------------------------

\* the model a toModelFormat call named, "" for none
ModelAsked(args) ==
    IF "options" \in DOMAIN args /\ "model" \in DOMAIN args.options
    THEN args.options.model ELSE ""

\* C34: the chat output of toModelFormat is one system message followed by
\* one message per content in contents order, 1 + |contents| messages; a
\* content of role tool becomes a message of role assistant exactly when
\* options.model is in the table of models using the assistant role, and
\* otherwise a message of role tool carrying its tool_call_id; the call
\* leaves the Working Context as it was.
C34_ChatMessagesFollowContents ==
    [][(/\ lastResult'.op = "toModelFormat"
        /\ ~lastResult'.threw
        /\ FormatAsked(lastResult'.args) # "responses")
        =>
          LET messages == lastResult'.value.messages
              contents == wctx.contents
              inTable == ModelAsked(lastResult'.args)
                            = "@cf/mistralai/mistral-small-3.1-24b-instruct"
          IN /\ wctx' = wctx
             /\ Len(messages) = 1 + Len(contents)
             /\ messages[1].role = "system"
             /\ \A i \in DOMAIN contents :
                   LET content == contents[i]
                       message == messages[i + 1]
                   IN /\ message.content = content.content
                      /\ content.role # "tool" => message.role = content.role
                      /\ content.role = "tool" =>
                            /\ message.role = "assistant" <=> inTable
                            /\ message.role \in {"assistant", "tool"}
                            /\ (message.role = "tool"
                                  /\ "tool_call_id" \in DOMAIN content) =>
                                  /\ "tool_call_id" \in DOMAIN message
                                  /\ message.tool_call_id
                                        = content.tool_call_id]_vars

\* toModelFormat, asked for a model outside the table, has turned a tool
\* content whose tool_call_id is the empty string into a tool message
\* without a tool_call_id.
C34_EmptyIdDropped ==
    /\ lastResult.op = "toModelFormat"
    /\ ~lastResult.threw
    /\ FormatAsked(lastResult.args) # "responses"
    /\ ModelAsked(lastResult.args) = Model2
    /\ Len(wctx.contents) >= 1
    /\ wctx.contents[1].role = "tool"
    /\ "tool_call_id" \in DOMAIN wctx.contents[1]
    /\ lastResult.value.messages[2].role = "tool"
    /\ "tool_call_id" \notin DOMAIN lastResult.value.messages[2]

\* ------------------------------------------------------------------------
\* Properties of one run of the statistics processor
\* ------------------------------------------------------------------------

\* C35: one run of the statistics processor with a response carrying
\* metadata.responseTimeMs = s > 0 sets averageResponseTimeMs to
\* (oldAvg * n + s) / (n + 1), n being totalAgentMessages at the time of the
\* run, and changes no other statistic, no event, no metadata field and no
\* compaction setting.
C35_RunFoldsSampleIntoAverage ==
    [][(/\ lastResult'.op = "statisticsResponseProcessor"
        /\ "metadata" \in DOMAIN lastResult'.response
        /\ "responseTimeMs" \in DOMAIN lastResult'.response.metadata
        /\ lastResult'.response.metadata.responseTimeMs > 0)
        =>
          LET sample == lastResult'.response.metadata.responseTimeMs
              n == session.statistics.totalAgentMessages
              oldAvg == session.statistics.averageResponseTimeMs
              newAvg == session'.statistics.averageResponseTimeMs
          IN /\ newAvg.den > 0
             /\ newAvg.num * (oldAvg.den * (n + 1))
                   = (oldAvg.num * n + sample * oldAvg.den) * newAvg.den
             /\ [session' EXCEPT !.statistics.averageResponseTimeMs = oldAvg]
                   = session]_vars

\* A sample of 100 ms was processed before the first agent message and one
\* of 40 ms after it: the average is 70 ms.
C35_Witness ==
    /\ lastResult.op = "statisticsResponseProcessor"
    /\ samples = <<100, 40>>
    /\ session.statistics.totalAgentMessages = 1
    /\ session.statistics.averageResponseTimeMs = Frac(70, 1)

\* ------------------------------------------------------------------------
\* Properties of the compaction trigger over time
\* ------------------------------------------------------------------------

\* C36: while the compaction config stays as it is, needsCompaction() is
\* monotone: in a state where it returns true it returns true again after
\* every addEvent, also after a compaction event whose compactedEventIds
\* name every earlier event; and a call made right after an addEvent on
\* such a state returns true.
C36_TriggerIsMonotone ==
    [][/\ (/\ session'.compactionConfig = session.compactionConfig
           /\ SessionNeedsCompaction(session))
          => SessionNeedsCompaction(session')
       /\ (lastResult'.op = "needsCompaction" /\ lastResult.op = "addEvent"
             /\ SessionNeedsCompaction(
                    [session EXCEPT !.events
                        = SubSeq(@, 1, Len(@) - 1)]))
          => lastResult'.value = TRUE]_vars

\* needsCompaction() has returned true on a log of two messages followed
\* by a compaction event that names both, under a threshold of 2.
C36_Witness ==
    /\ lastResult.op = "needsCompaction"
    /\ lastResult.value = TRUE
    /\ session.compactionConfig.triggerThreshold = Val(2)
    /\ Len(session.events) = 3
    /\ session.events[3].action = COMPACTION
    /\ session.events[3].compactedEventIds = <<1, 2>>

\* ------------------------------------------------------------------------
\* Properties of a request pipeline of synchronous processors
\* ------------------------------------------------------------------------

\* every registered request processor is synchronous
AllSynchronous(p) ==
    \A i \in DOMAIN p.requestProcessors :
        p.requestProcessors[i].processor
            \notin {"memory-search", "audit", "faulty-async"}

\* the basic processor is registered and not switched off
RunsBasic(p) ==
    \E i \in DOMAIN p.requestProcessors :
        /\ p.requestProcessors[i].processor = "basic"
        /\ ~("enabled" \in DOMAIN p.requestProcessors[i]
                /\ p.requestProcessors[i].enabled = FALSE)

\* C37: when every registered request processor is synchronous,
\* executeRequestPipeline never suspends between its stages: the call is
\* over in the step that starts it, no addEvent comes between two stages,
\* and the context returned has metadata.totalEvents, written by basic,
\* equal to the length of the log the later stages read, none of whose
\* contents comes from a later event.
C37_SynchronousRunIsAtomic ==
    [][AllSynchronous(pipeline) =>
          /\ reqRun'.pc = "idle"
          /\ (/\ lastResult'.op = "executeRequestPipeline"
              /\ IF lastResult.op = "executeRequestPipeline"
                 THEN lastResult' # lastResult ELSE TRUE) =>
                /\ reqRun.pc = "idle"
                /\ session' = session
                /\ lastResult'.outcome = "resolved"
                /\ RunsBasic(pipeline) =>
                      lastResult'.value.metadata.totalEvents
                          = Len(session.events)
                /\ \A k \in DOMAIN lastResult'.value.contents :
                      lastResult'.value.contents[k].metadata.eventId
                          \in 1..Len(session.events)]_vars

\* A pipeline of synchronous processors has returned, in one step, a
\* context over a log of two events: totalEvents is 2 and there are
\* contents.
C37_Witness ==
    /\ AllSynchronous(pipeline)
    /\ RunsBasic(pipeline)
    /\ lastResult.op = "executeRequestPipeline"
    /\ lastResult.outcome = "resolved"
    /\ reqRun.pc = "idle"
    /\ Len(session.events) = 2
    /\ lastResult.value.metadata.totalEvents = 2
    /\ lastResult.value.contents # <<>>

\* ------------------------------------------------------------------------
\* Properties of the compaction filter told to keep no summaries
\* ------------------------------------------------------------------------

\* C39: with keepCompactionSummaries false the compaction filter keeps no
\* summary: no projected content comes from a compaction event, and the
\* events named by some compactedEventIds are left out as before.
C39_NoSummariesWhenNotKept ==
    lastResult.op = "executeRequestPipeline" =>
        LET contents == lastResult.value.contents
            events == session.events
            referenced == ReferencedIds(events)
        IN \A j \in DOMAIN contents :
              /\ events[contents[j].metadata.eventId].action # COMPACTION
              /\ contents[j].metadata.eventId \notin referenced

\* The filter, told to keep no summaries, has projected the summary of a
\* compaction event that names the two messages before it.
C39_SummaryStillProjected ==
    /\ lastResult.op = "executeRequestPipeline"
    /\ Len(session.events) = 3
    /\ session.events[3].action = COMPACTION
    /\ session.events[3].compactedEventIds = <<1, 2>>
    /\ Len(lastResult.value.contents) = 1
    /\ lastResult.value.contents[1].role = "system"
    /\ lastResult.value.contents[1].metadata.eventId = 3

====
